---- MODULE Spec2Model ----
(***************************************************************************)
(* A model of the hebo MQTT broker: the connection routing table of       *)
(* ServerContext (hebo/src/server_context.rs), the listener-facing        *)
(* handlers of Session (hebo/src/session/listener.rs), the dispatcher     *)
(* handlers of Listener (hebo/src/listener/dispatcher.rs) and the Auth    *)
(* task (hebo/src/auth/app.rs, hebo/src/auth/file_auth.rs).               *)
(*                                                                         *)
(* A string is a sequence of one-character strings, so that split('/')    *)
(* and the per-level parsing of topic.rs are computed, not assumed.       *)
(***************************************************************************)
EXTENDS Integers, Sequences, FiniteSets, TLC

\* ------------------------------------------------------------------------
\* Bounds of the model.
\* ------------------------------------------------------------------------
MaxConnections == 2      \* connections accepted in a run
MaxSubscriptions == 2    \* subscriptions held by all pipelines together
MaxSessionQueue == 1     \* commands waiting in the listener-to-session channel
MaxInflightMessages == 1 \* the configured session.maximum_inflight_messages
MaxConnectionRx == 1     \* capacity of the channel from the connections to the server
MaxServerRx == 2         \* capacity of the channel from the server to a connection
MaxPublishes == 3        \* PUBLISH commands the connections send in a run
MaxInbound == 2          \* commands waiting in the inbound channel of an app
MaxTopicLen == 4         \* characters of a topic name or topic filter

\* ------------------------------------------------------------------------
\* Inputs.
\* ------------------------------------------------------------------------
QoS == {0, 1, 2}

\* Topic names a client publishes to.
TopicNames == { <<"a">>, <<"b">> }

\* Topic filters a client names in SUBSCRIBE / UNSUBSCRIBE; "a+" does not parse.
TopicFilters == { <<"a">>, <<"#">>, <<"a", "+">> }

\* Result<T, E>.
Ok(v) == [ok |-> TRUE, value |-> v]
Err(e) == [ok |-> FALSE, error |-> e]

\* Option<T>.
None == [some |-> FALSE]
Some(v) == [some |-> TRUE, value |-> v]

Min(a, b) == IF a <= b THEN a ELSE b

\* ------------------------------------------------------------------------
\* src/topic.rs
\* ------------------------------------------------------------------------

\* str::split('/'): the levels of s, at least one (possibly empty) level.
RECURSIVE Split(_)
Split(s) ==
    IF s = <<>> THEN << <<>> >>
    ELSE LET rest == Split(Tail(s))
         IN  IF Head(s) = "/" THEN << <<>> >> \o rest
             ELSE << <<Head(s)>> \o Head(rest) >> \o Tail(rest)

has_wildcard(s) == \E i \in 1..Len(s) : s[i] = "#" \/ s[i] = "+"

is_internal(s) == Len(s) > 0 /\ s[1] = "$"

TopicPartParse(s) ==
    IF s = <<>> THEN [kind |-> "Empty"]
    ELSE IF s = <<"+">> THEN [kind |-> "SingleWildcard"]
    ELSE IF s = <<"#">> THEN [kind |-> "MultiWildcard"]
    ELSE IF has_wildcard(s) THEN [kind |-> "ContainsWildChar"]
    ELSE IF is_internal(s) THEN [kind |-> "Internal", part |-> s]
    ELSE [kind |-> "Normal", part |-> s]

parse_parts(s) ==
    LET levels == Split(s)
        parts == [i \in 1..Len(levels) |-> TopicPartParse(levels[i])]
    IN  IF \E i \in 1..Len(parts) : parts[i].kind = "ContainsWildChar"
        THEN Err("ContainsWildChar")
        ELSE Ok(parts)

TopicParse(s) ==
    LET parts == parse_parts(s)
    IN  IF parts.ok THEN Ok([topic |-> s, parts |-> parts.value]) ELSE parts

\* The loop of Topic::is_match from the level at `index` (0-based) on.
RECURSIVE is_match_from(_, _, _)
is_match_from(parts, levels, index) ==
    IF index >= Len(levels) THEN TRUE
    ELSE IF Len(parts) - 1 < index THEN FALSE
    ELSE LET p == parts[index + 1]
             part == levels[index + 1]
         IN  CASE p.kind = "Empty" -> FALSE
               [] p.kind = "Normal" ->
                    IF p.part # part THEN FALSE
                    ELSE is_match_from(parts, levels, index + 1)
               [] p.kind = "Internal" ->
                    IF p.part # part THEN FALSE
                    ELSE is_match_from(parts, levels, index + 1)
               [] p.kind = "SingleWildcard" ->
                    is_match_from(parts, levels, index + 1)
               [] p.kind = "MultiWildcard" -> TRUE

is_match(self, s) == is_match_from(self.parts, Split(s), 0)

\* The first byte of the filter that breaks a rule of validate_sub_topic.
invalid_sub_bytes(bytes) ==
    { index \in 1..Len(bytes) :
        \/ /\ bytes[index] = "#"
           /\ \/ (index > 1 /\ bytes[index - 1] # "/")
              \/ index # Len(bytes)
        \/ /\ bytes[index] = "+"
           /\ index > 1 /\ bytes[index - 1] # "/" }

validate_sub_topic(topic) ==
    IF topic = <<>> THEN Err("EmptyTopic")
    ELSE IF topic = <<"#">> THEN Ok("unit")
    ELSE IF invalid_sub_bytes(topic) # {} THEN Err("InvalidChar")
    ELSE Ok("unit")

U16Max == 65535

validate_pub_topic(topic) ==
    IF topic = <<>> THEN Err("EmptyTopic")
    ELSE IF Len(topic) > U16Max THEN Err("TooManyData")
    ELSE IF \E i \in 1..Len(topic) : topic[i] = "+" \/ topic[i] = "#"
         THEN Err("InvalidChar")
    ELSE Ok("unit")

\* ------------------------------------------------------------------------
\* hebo/src/server_context.rs
\* ------------------------------------------------------------------------
VARIABLES
    pipelines,              \* Vec<Pipeline>: [connection_id, topics]
    current_connection_id,  \* ConnectionId
    server_tx,              \* per connection id: what the last event's handler sent
                            \* on the server_tx of that connection's pipeline
    cmd,                    \* the event run_loop handled last
    disconnected            \* the connection ids whose Disconnect has been routed

server_vars == <<pipelines, current_connection_id, server_tx, cmd, disconnected>>

\* hebo/src/session/listener.rs, hebo/src/listener/dispatcher.rs
VARIABLES
    session,          \* Session: [status, pub_recv_packets, subscriptions, inflight, closed]
    session_rx,       \* the ListenerToSessionCmd channel of the session
    client_rx,        \* the packets the last session handler wrote to the client
    session_result,   \* what the last session handler returned
    session_cmd,      \* the command the session handled last
    session_senders,  \* Listener.session_senders: the ids of the registered sessions
    listener_cmd,     \* the command the listener handled last
    listener_result   \* what the last listener handler returned

session_vars == <<session, session_rx, client_rx, session_result, session_cmd,
                  session_senders, listener_cmd, listener_result>>

\* hebo/src/auth/app.rs
VARIABLES
    allow_anonymous,   \* AuthApp.allow_anonymous
    file_auth,         \* AuthApp.file_auth: Option<FileAuth>
    listener_senders,  \* AuthApp.listener_senders: the listener ids, in order
    auth_tx,           \* per listener id: what the last handler sent on its sender
    auth_cmd,          \* the ListenerToAuthCmd handled last
    auth_result        \* what handle_listener_cmd returned last

auth_vars == <<allow_anonymous, file_auth, listener_senders, auth_tx, auth_cmd,
               auth_result>>

\* The channels of hebo/src/server_context.rs: connection_tx / connection_rx
\* from the connections to the server, server_tx / server_rx from the server
\* to each connection.
VARIABLES
    connection_rx,  \* the ConnectionCommands waiting for run_loop, oldest first
    server_rx,      \* per connection id: the ServerCommands waiting for it, oldest first
    sending,        \* the PUBLISH on_publish is in the middle of, and the pipeline
                    \* whose server_tx.send(..).await it is suspended at
    received,       \* per connection id: the number of the PUBLISH it received last
    publish_seq,    \* the number of PUBLISH commands run_loop has taken from connection_rx
    dropped,        \* the connection ids whose task ended and dropped its server_rx
    awaiting        \* per connection id: the command whose connection_tx.send(..).await
                    \* the connection task is suspended at, if any

queue_vars == <<connection_rx, server_rx, sending, received, publish_seq, dropped,
                awaiting>>

\* The event loops of the sibling apps: hebo/src/auth/app.rs, src/bridge/app.rs.
VARIABLES
    inbound,  \* per app: the inbound channel, [queue, senders]: the commands
              \* waiting and the number of send sides not yet dropped
    task      \* per app: "running", "stopped" or "panicked"

loop_vars == <<inbound, task>>

\* The process: src/server/mod.rs.
VARIABLES
    process,        \* "running" until ServerContext::run_loop returns, then "exited"
    accepting,      \* whether the listeners accept connections
    live_sessions,  \* the sessions with a client connected
    dispatcher_rx,  \* the ids of the sessions whose commands wait for the dispatcher
    signal          \* what run_inner_loop handled last

process_vars == <<process, accepting, live_sessions, dispatcher_rx, signal>>

\* The start of the modules: hebo/src/server.rs.
VARIABLES
    run_loop_pc,    \* where ServerContext::run_loop is: [at, k]
    listener_task,  \* per configured listener: "unstarted", "running" or "terminated"
    storage_task,   \* "unstarted", "running" or "terminated"
    storage_rx      \* the ids of the listeners whose commands wait for the storage

startup_vars == <<run_loop_pc, listener_task, storage_task, storage_rx>>

\* Calls of the functions of src/topic.rs.
VARIABLES
    topic_filter,  \* the string given as a topic filter
    topic_name,    \* the string given as a topic name
    topic_out      \* the function called last and what it returned: [op, result]

topic_vars == <<topic_filter, topic_name, topic_out>>

\* Calls of the codec: src/v5/publish_packet.rs.
VARIABLES
    packet_in,  \* the packet given to encode
    encoded,    \* Option: what encode returned, Ok(bytes) or Err
    decoded     \* Option: what decode returned on the encoded bytes, Ok(packet) or Err

codec_vars == <<packet_in, encoded, decoded>>

\* The listener and the channels to its sessions: hebo/src/listener/dispatcher.rs.
VARIABLES
    session_channels,   \* Listener.session_senders with the channel behind each
                        \* sender: per registered session id, [queue, closed]
    dispatcher_cmd,     \* the DispatcherToListenerCmd the listener handled last
    dispatcher_result   \* what handle_dispatcher_cmd returned, or its panic

listener_vars == <<session_channels, dispatcher_cmd, dispatcher_result>>

\* One ByteArray and its caller: codec/src/byte_array.rs.
VARIABLES
    byte_array,   \* ByteArray: [offset, data]
    read_result   \* the call made last with what it returned, or its panic

reader_vars == <<byte_array, read_result>>

\* Variables of the components modelled further down.
other_vars == <<process_vars, startup_vars, topic_vars, codec_vars, listener_vars,
                reader_vars>>

vars == <<server_vars, session_vars, auth_vars, queue_vars, loop_vars, other_vars>>

\* What the actions of one component leave alone.
not_server_vars == <<session_vars, auth_vars, queue_vars, loop_vars, other_vars>>
not_session_vars == <<server_vars, auth_vars, queue_vars, loop_vars, other_vars>>
not_auth_vars == <<server_vars, session_vars, queue_vars, loop_vars, other_vars>>
not_queue_vars == <<server_tx, cmd, disconnected, session_vars, auth_vars, loop_vars,
                    other_vars>>
not_loop_vars == <<server_vars, session_vars, queue_vars, other_vars>>
not_process_vars == <<server_vars, session_vars, auth_vars, queue_vars, loop_vars,
                      startup_vars, topic_vars, codec_vars,
                      listener_vars, reader_vars>>
not_startup_vars == <<server_vars, session_vars, auth_vars, queue_vars, loop_vars,
                      process_vars, topic_vars, codec_vars,
                      listener_vars, reader_vars>>
not_topic_vars == <<server_vars, session_vars, auth_vars, queue_vars, loop_vars,
                    process_vars, startup_vars, codec_vars,
                    listener_vars, reader_vars>>
not_listener_vars == <<server_vars, session_vars, auth_vars, queue_vars, loop_vars,
                       process_vars, startup_vars, topic_vars, codec_vars,
                       reader_vars>>
not_reader_vars == <<server_vars, session_vars, auth_vars, queue_vars, loop_vars,
                     process_vars, startup_vars, topic_vars, codec_vars,
                     listener_vars>>
not_codec_vars == <<server_vars, session_vars, auth_vars, queue_vars, loop_vars,
                    process_vars, startup_vars, topic_vars,
                    listener_vars, reader_vars>>

ConnectionIds == 1..MaxConnections

SubscribedTopic(pattern, qos) == [pattern |-> pattern, qos |-> qos]

Pipeline(connection_id) == [connection_id |-> connection_id, topics |-> <<>>]

PublishPackets == [topic : TopicNames, qos : QoS]

SubscribeTopic(topic, qos) == [topic |-> topic, qos |-> qos]

\* SUBSCRIBE packets: every single (filter, QoS) pair, and two packets of two pairs.
SubscribePackets ==
    { <<SubscribeTopic(f, q)>> : f \in TopicFilters, q \in QoS }
    \cup { << SubscribeTopic(<<"a">>, 1), SubscribeTopic(<<"#">>, 0) >>,
           << SubscribeTopic(<<"a", "+">>, 2), SubscribeTopic(<<"a">>, 2) >> }

\* UNSUBSCRIBE packets: every single filter, and one packet of two filters.
UnsubscribePackets ==
    { <<f>> : f \in TopicFilters } \cup { << <<"a">>, <<"#">> >> }

\* Iterator::position: 1-based index of the first pipeline of connection_id, 0 for None.
position(ps, connection_id) ==
    LET hits == { i \in 1..Len(ps) : ps[i].connection_id = connection_id }
    IN  IF hits = {} THEN 0 ELSE CHOOSE i \in hits : \A j \in hits : i <= j

\* A removal that drops the first pipeline whatever the position found.
remove_front(ps, pos) == Tail(ps)

\* Vec::remove.
remove(ps, pos) == [i \in 1..(Len(ps) - 1) |-> IF i < pos THEN ps[i] ELSE ps[i + 1]]

\* A counter that hands out the first id again and again.
next_connection_id_first(id) == 1

next_connection_id(id) == id + 1

\* Topic::parse of every filter a client names, computed once.
ParsedFilters == [f \in TopicFilters |-> TopicParse(f)]

\* The inner loop of on_subscribe: push every topic of the packet that parses.
RECURSIVE push_topics(_, _)
push_topics(topics, entries) ==
    IF entries = <<>> THEN topics
    ELSE LET pattern == ParsedFilters[Head(entries).topic]
         IN  push_topics(IF pattern.ok
                         THEN Append(topics,
                                     SubscribedTopic(pattern.value, Head(entries).qos))
                         ELSE topics,
                         Tail(entries))

on_subscribe(ps, connection_id, packet) ==
    LET pos == position(ps, connection_id)
    IN  IF pos = 0 THEN ps
        ELSE [ps EXCEPT ![pos].topics = push_topics(@, packet)]

\* Vec::retain with the predicate of on_unsubscribe.
retain(topics, packet) ==
    SelectSeq(topics, LAMBDA topic :
        ~(\E i \in 1..Len(packet) : packet[i] = topic.pattern.topic))

\* The `break` follows the `if`: the loop body runs for the first pipeline only.
on_unsubscribe(ps, connection_id, packet) ==
    IF ps = <<>> THEN ps
    ELSE IF ps[1].connection_id = connection_id
         THEN [ps EXCEPT ![1].topics = retain(@, packet)]
         ELSE ps

topic_match(topics, topic_str) ==
    \E i \in 1..Len(topics) : is_match(topics[i].pattern, topic_str)

\* Nothing was sent to any connection.
NoneSent == [c \in ConnectionIds |-> <<>>]

\* A loop that sends one copy for every subscription that matches.
RECURSIVE on_publish_per_topic(_, _, _, _)
on_publish_per_topic(ps, tx, closed, packet) ==
    IF ps = <<>> THEN tx
    ELSE LET pipeline == Head(ps)
             c == pipeline.connection_id
             copies == SelectSeq(pipeline.topics,
                                 LAMBDA topic : is_match(topic.pattern, packet.topic))
         IN  on_publish_per_topic(Tail(ps),
                                  IF c \notin closed
                                  THEN [tx EXCEPT ![c] =
                                           @ \o [i \in 1..Len(copies) |-> packet]]
                                  ELSE tx,
                                  closed, packet)

\* ServerCommand::Publish(packet.clone()), sent once to every pipeline that
\* matches. A send to a connection whose receiver is closed returns Err, which
\* is logged, and the loop goes on.
RECURSIVE on_publish(_, _, _, _)
on_publish(ps, tx, closed, packet) ==
    IF ps = <<>> THEN tx
    ELSE LET pipeline == Head(ps)
             c == pipeline.connection_id
         IN  on_publish(Tail(ps),
                        IF topic_match(pipeline.topics, packet.topic) /\ c \notin closed
                        THEN [tx EXCEPT ![c] = Append(@, packet)]
                        ELSE tx,
                        closed, packet)

\* The number of subscriptions in the table.
RECURSIVE subscribed(_)
subscribed(ps) == IF ps = <<>> THEN 0 ELSE Len(Head(ps).topics) + subscribed(Tail(ps))

\* The ids handed out so far: only an accepted connection sends commands.
Accepted == 1..current_connection_id

\* ------------------------------------------------------------------------
\* hebo/src/session/listener.rs, hebo/src/listener/dispatcher.rs
\* ------------------------------------------------------------------------
\* The id of the session of the model, and an id no session is registered under.
SessionIds == {1, 2}

PacketIds == {1, 2}

\* Snapshots a dispatcher may hold for a client id.
CachedSessions ==
    { [subscriptions |-> << SubscribeTopic(<<"a">>, 1) >>, inflight |-> {1},
       pub_recv_packets |-> {}],
      [subscriptions |-> <<>>, inflight |-> {}, pub_recv_packets |-> {2}] }

ConnectAckPacket(session_present, return_code) ==
    [type |-> "ConnectAck", session_present |-> session_present,
     return_code |-> return_code]

PublishAckPacket(packet_id) == [type |-> "PublishAck", packet_id |-> packet_id]

PublishReceivedPacket(packet_id) ==
    [type |-> "PublishReceived", packet_id |-> packet_id]

\* The ListenerToSessionCmd values no handler under src/ builds: a refused
\* CONNECT, the answers to PUBLISH and SUBSCRIBE, a PUBLISH to deliver, Disconnect.
ListenerCmds ==
    { [type |-> "ConnectAck", packet |-> ConnectAckPacket(FALSE, "Unauthorized"),
       cached_session |-> None] }
    \cup { [type |-> "PublishAck", packet_id |-> id, qos |-> q, accepted |-> a] :
             id \in PacketIds, q \in QoS, a \in BOOLEAN }
    \cup { [type |-> "Publish", packet |-> [type |-> "Publish", topic |-> <<"a">>, qos |-> 0]],
           [type |-> "SubscribeAck", packet |-> [type |-> "SubscribeAck", packet_id |-> 1]],
           [type |-> "Disconnect"] }

\* What a handler leaves behind: the session, the packets written, the result.
Handled(s, written, result) == [session |-> s, written |-> written, result |-> result]

\* Session::send: the packet is written to the client unless the stream fails.
send(s, packet, io_ok) ==
    IF io_ok THEN Handled(s, <<packet>>, Ok("unit"))
    ELSE Handled(s, <<>>, Err("IoError"))

\* Session::send_disconnect: the connection is closed without a packet.
send_disconnect(s) ==
    Handled([s EXCEPT !.status = "Disconnected", !.closed = TRUE], <<>>, Ok("unit"))

\* Session::load_cached_session: the snapshot replaces the session's tables.
load_cached_session(s, cached_session) ==
    [s EXCEPT !.subscriptions = cached_session.subscriptions,
              !.inflight = cached_session.inflight,
              !.pub_recv_packets = cached_session.pub_recv_packets]

\* A handler that drops the cached session.
on_listener_connect_ack_no_load(s, packet, cached_session, io_ok) ==
    IF ~io_ok THEN send(s, packet, io_ok)
    ELSE Handled([s EXCEPT !.status = IF packet.return_code = "Accepted"
                                      THEN "Connected" ELSE "Disconnected"],
                 <<packet>>, Ok("unit"))

\* A handler that updates the status and loads the cached session first and
\* sends the CONNACK afterwards.
on_listener_connect_ack_status_first(s, packet, cached_session, io_ok) ==
    LET s1 == [s EXCEPT !.status = IF packet.return_code = "Accepted"
                                   THEN "Connected" ELSE "Disconnected"]
    IN  send(IF cached_session.some
             THEN load_cached_session(s1, cached_session.value) ELSE s1,
             packet, io_ok)

on_listener_connect_ack(s, packet, cached_session, io_ok) ==
    LET return_code == packet.return_code
        sent == send(s, packet, io_ok)
    IN  IF ~sent.result.ok THEN sent
        ELSE LET s1 == [s EXCEPT !.status = IF return_code = "Accepted"
                                            THEN "Connected" ELSE "Disconnected"]
             IN  Handled(IF cached_session.some
                         THEN load_cached_session(s1, cached_session.value)
                         ELSE s1,
                         sent.written, Ok("unit"))

\* A handler that looks at `accepted` only after the acknowledgement.
on_listener_publish_ack_late_check(s, packet_id, qos, accepted, io_ok) ==
    IF qos = 1 THEN send(s, PublishAckPacket(packet_id), io_ok)
    ELSE IF qos = 2
    THEN send([s EXCEPT !.pub_recv_packets = @ \cup {packet_id}],
              PublishReceivedPacket(packet_id), io_ok)
    ELSE IF ~accepted THEN send_disconnect(s)
    ELSE Handled(s, <<>>, Ok("unit"))

\* A handler that answers QoS 1 and QoS 2 alike with PUBACK.
on_listener_publish_ack_puback_only(s, packet_id, qos, accepted, io_ok) ==
    IF ~accepted THEN send_disconnect(s)
    ELSE IF qos = 1 \/ qos = 2 THEN send(s, PublishAckPacket(packet_id), io_ok)
    ELSE Handled(s, <<>>, Ok("unit"))

on_listener_publish_ack(s, packet_id, qos, accepted, io_ok) ==
    IF ~accepted THEN send_disconnect(s)
    ELSE IF qos = 1 THEN send(s, PublishAckPacket(packet_id), io_ok)
    ELSE IF qos = 2
    THEN IF Cardinality(s.pub_recv_packets) > MaxInflightMessages
         THEN send_disconnect(s)
         ELSE send([s EXCEPT !.pub_recv_packets = @ \cup {packet_id}],
                   PublishReceivedPacket(packet_id), io_ok)
    ELSE Handled(s, <<>>, Ok("unit"))

on_listener_publish(s, packet, io_ok) == send(s, packet, io_ok)

on_listener_subscribe_ack(s, packet, io_ok) == send(s, packet, io_ok)

on_listener_disconnect(s) == send_disconnect(s)

handle_listener_packet(s, c, io_ok) ==
    CASE c.type = "ConnectAck" ->
            on_listener_connect_ack(s, c.packet, c.cached_session, io_ok)
      [] c.type = "PublishAck" ->
            on_listener_publish_ack(s, c.packet_id, c.qos, c.accepted, io_ok)
      [] c.type = "Publish" -> on_listener_publish(s, c.packet, io_ok)
      [] c.type = "SubscribeAck" -> on_listener_subscribe_ack(s, c.packet, io_ok)
      [] c.type = "Disconnect" -> on_listener_disconnect(s)

\* Listener::session_send_connect_ack: the CONNACK, with session_present set when
\* a cached session comes with it, goes to the session registered under session_id.
session_send_connect_ack(senders, session_id, return_code, cached_session) ==
    IF session_id \in senders
    THEN Ok([type |-> "ConnectAck",
             packet |-> ConnectAckPacket(cached_session.some, return_code),
             cached_session |-> cached_session])
    ELSE Err("SessionError")

on_dispatcher_check_cached_session(senders, session_id, cached_session) ==
    session_send_connect_ack(senders, session_id, "Accepted", cached_session)

\* A session's loop runs until its status is terminal.
session_alive(s) == s.status \in {"Connecting", "Connected"} /\ ~s.closed

SessionInit ==
    /\ session = [status |-> "Connecting", pub_recv_packets |-> {},
                  subscriptions |-> <<>>, inflight |-> {}, closed |-> FALSE]
    /\ session_rx = <<>>
    /\ client_rx = <<>>
    /\ session_result = Ok("unit")
    /\ session_cmd = [type |-> "None"]
    /\ session_senders = {1}
    /\ listener_cmd = [type |-> "None"]
    /\ listener_result = Ok("unit")

\* Listener::handle_dispatcher_cmd on CheckCachedSessionResp.
handle_dispatcher_cmd_check_cached_session ==
    \E session_id \in SessionIds,
       cached_session \in {None} \cup { Some(c) : c \in CachedSessions } :
        LET r == on_dispatcher_check_cached_session(session_senders, session_id,
                                                    cached_session)
        IN  /\ Len(session_rx) < MaxSessionQueue
            /\ session_rx' = IF r.ok THEN Append(session_rx, r.value) ELSE session_rx
            /\ listener_result' = IF r.ok THEN Ok("unit") ELSE r
            /\ listener_cmd' = [type |-> "CheckCachedSessionResp",
                                session_id |-> session_id,
                                cached_session |-> cached_session]
            /\ UNCHANGED <<session, client_rx, session_result, session_cmd,
                           session_senders>>
            /\ UNCHANGED not_session_vars

\* The listener sends the session one of its other commands.
listener_sends ==
    \E c \in ListenerCmds :
        /\ Len(session_rx) < MaxSessionQueue
        /\ session_rx' = Append(session_rx, c)
        /\ listener_result' = Ok("unit")
        /\ listener_cmd' = [type |-> "Other"]
        /\ UNCHANGED <<session, client_rx, session_result, session_cmd,
                       session_senders>>
        /\ UNCHANGED not_session_vars

\* Session::handle_listener_packet on the next command of the channel.
session_handle_listener_packet ==
    \E io_ok \in BOOLEAN :
        LET h == handle_listener_packet(session, Head(session_rx), io_ok)
        IN  /\ session_rx # <<>>
            /\ session_alive(session)
            /\ session' = h.session
            /\ client_rx' = h.written
            /\ session_result' = h.result
            /\ session_rx' = Tail(session_rx)
            /\ session_cmd' = Head(session_rx)
            /\ UNCHANGED <<session_senders, listener_cmd, listener_result>>
            /\ UNCHANGED not_session_vars

\* ------------------------------------------------------------------------
\* hebo/src/auth/app.rs, hebo/src/auth/file_auth.rs
\* ------------------------------------------------------------------------

ListenerIds == {1, 2}

Usernames == {"", "alice", "bob", "carol"}

Passwords == {"pw1", "pw2"}

\* The password files the broker may be configured with: none, or a file with a
\* record of alice and a record of carol whose hash cannot be checked.
PasswordFiles ==
    { None,
      Some([u \in {"alice", "carol"} |->
              IF u = "alice" THEN [kind |-> "hashed", password |-> "pw1"]
              ELSE [kind |-> "unreadable"]]) }

\* Password::is_match: whether the record was made from the password, or the
\* error of a record it cannot hash against.
PasswordIsMatch(p, password) ==
    IF p.kind = "hashed" THEN Ok(p.password = password) ELSE Err("PasswordError")

\* FileAuth::is_match.
FileAuthIsMatch(records, username, password) ==
    IF username \notin DOMAIN records THEN Ok(FALSE)
    ELSE PasswordIsMatch(records[username], password)

NoResponse == [l \in ListenerIds |-> <<>>]

ResponseAuth(session_id, access_granted) ==
    [type |-> "ResponseAuth", session_id |-> session_id,
     access_granted |-> access_granted]

\* The loop over listener_senders: the response goes to the first sender
\* registered under listener_id.
RECURSIVE send_response(_, _, _)
send_response(senders, listener_id, response) ==
    IF senders = <<>>
    THEN [sent |-> NoResponse, result |-> Err("ChannelError")]
    ELSE IF Head(senders) = listener_id
         THEN [sent |-> [NoResponse EXCEPT ![listener_id] = <<response>>],
               result |-> Ok("unit")]
         ELSE send_response(Tail(senders), listener_id, response)

\* A handler that grants every empty username.
on_listener_request_auth_anonymous(anonymous, file, senders, listener_id, session_id, username, password) ==
    LET matched == IF username = "" THEN Ok(TRUE)
                   ELSE IF file.some
                        THEN FileAuthIsMatch(file.value, username, password)
                        ELSE Ok(FALSE)
    IN  IF ~matched.ok THEN [sent |-> NoResponse, result |-> matched]
        ELSE send_response(senders, listener_id,
                           ResponseAuth(session_id, matched.value))

on_listener_request_auth(anonymous, file, senders, listener_id, session_id, username, password) ==
    LET access_granted ==
            IF username = "" THEN Ok(anonymous)
            ELSE IF file.some
                 THEN FileAuthIsMatch(file.value, username, password)
                 ELSE Ok(FALSE)
    IN  IF ~access_granted.ok
        THEN [sent |-> NoResponse, result |-> access_granted]
        ELSE send_response(senders, listener_id,
                           ResponseAuth(session_id, access_granted.value))

\* AuthApp::new, for the security section of a configuration.
AuthNew(anonymous, file) ==
    /\ allow_anonymous = anonymous
    /\ file_auth = file
    /\ listener_senders = <<1, 2>>
    /\ auth_tx = NoResponse
    /\ auth_cmd = [type |-> "None"]
    /\ auth_result = Ok("unit")

\* AuthApp::run_loop: one command of listener_receiver is handled; an error is logged.
handle_listener_cmd ==
    \E listener_id \in ListenerIds, session_id \in SessionIds,
       username \in Usernames, password \in Passwords :
        LET h == on_listener_request_auth(allow_anonymous, file_auth,
                                          listener_senders, listener_id,
                                          session_id, username, password)
        IN  /\ auth_tx' = h.sent
            /\ auth_result' = h.result
            /\ auth_cmd' = [type |-> "RequestAuth", listener_id |-> listener_id,
                            session_id |-> session_id, username |-> username,
                            password |-> password]
            /\ UNCHANGED <<allow_anonymous, file_auth, listener_senders>>
            /\ UNCHANGED not_auth_vars

ServerInit ==
    /\ pipelines = <<>>
    /\ current_connection_id = 0
    /\ server_tx = NoneSent
    /\ cmd = [type |-> "None"]
    /\ disconnected = {}

new_connection ==
    /\ current_connection_id < MaxConnections
    /\ LET connection_id == next_connection_id(current_connection_id)
       IN  /\ current_connection_id' = connection_id
           /\ pipelines' = Append(pipelines, Pipeline(connection_id))
           /\ cmd' = [type |-> "Accept", connection_id |-> connection_id]
    /\ server_tx' = NoneSent
    /\ UNCHANGED disconnected
    /\ UNCHANGED not_server_vars

route_cmd_publish ==
    \E packet \in PublishPackets :
        /\ server_tx' = on_publish(pipelines, NoneSent, dropped, packet)
        /\ cmd' = [type |-> "Publish", packet |-> packet]
        /\ UNCHANGED <<pipelines, current_connection_id, disconnected>>
        /\ UNCHANGED not_server_vars

route_cmd_subscribe ==
    \E connection_id \in Accepted, packet \in SubscribePackets :
        LET ps == on_subscribe(pipelines, connection_id, packet)
        IN  /\ subscribed(ps) <= MaxSubscriptions
            /\ pipelines' = ps
            /\ server_tx' = NoneSent
            /\ cmd' = [type |-> "Subscribe", connection_id |-> connection_id]
            /\ UNCHANGED <<current_connection_id, disconnected>>
            /\ UNCHANGED not_server_vars

route_cmd_unsubscribe ==
    \E connection_id \in Accepted, packet \in UnsubscribePackets :
        /\ pipelines' = on_unsubscribe(pipelines, connection_id, packet)
        /\ server_tx' = NoneSent
        /\ cmd' = [type |-> "Unsubscribe", connection_id |-> connection_id,
                   packet |-> packet]
        /\ UNCHANGED <<current_connection_id, disconnected>>
        /\ UNCHANGED not_server_vars

route_cmd_disconnect ==
    \E connection_id \in Accepted :
        LET pos == position(pipelines, connection_id)
        IN  /\ pipelines' = IF pos # 0 THEN remove(pipelines, pos) ELSE pipelines
            /\ server_tx' = NoneSent
            /\ cmd' = [type |-> "Disconnect", connection_id |-> connection_id]
            /\ disconnected' = disconnected \cup {connection_id}
            /\ UNCHANGED current_connection_id
            /\ UNCHANGED not_server_vars

\* A connection task ends: the receiver of its server_tx channel is dropped
\* while its pipeline is still in the table.
receiver_dropped ==
    \E c \in Accepted \ dropped :
        /\ dropped' = dropped \cup {c}
        /\ server_tx' = NoneSent
        /\ cmd' = [type |-> "Closed", connection_id |-> c]
        /\ UNCHANGED <<pipelines, current_connection_id, disconnected>>
        /\ UNCHANGED <<connection_rx, server_rx, sending, received, publish_seq,
                       awaiting>>
        /\ UNCHANGED <<session_vars, auth_vars, loop_vars, process_vars, startup_vars,
                       topic_vars, codec_vars, listener_vars, reader_vars>>

\* The topics on_subscribe leaves in a pipeline: up to two filters that parse.
DeliveryTopics ==
    { push_topics(<<>>, packet) :
        packet \in { <<>> } \cup { <<SubscribeTopic(f, 0)>> : f \in TopicFilters }
                   \cup { <<SubscribeTopic(f, 0), SubscribeTopic(g, 0)>> :
                            f \in TopicFilters, g \in TopicFilters } }

\* The tables run_loop builds: the pipelines of the accepted connections, in
\* the order of their ids.
DeliveryTables ==
    UNION { { [i \in 1..n |-> [connection_id |-> i, topics |-> topics[i]]] :
                topics \in [1..n -> DeliveryTopics] } : n \in 0..MaxConnections }

\* ------------------------------------------------------------------------
\* hebo/src/server_context.rs: run_loop with its channels.
\* ------------------------------------------------------------------------

\* The connections of the runs with channels.
QueueConnections == {1, 2}

\* What a connection sends on connection_tx while it runs.
ConnectionCommands(c) ==
    { [type |-> "Publish", publish |-> [topic |-> t, qos |-> 0]] : t \in TopicNames }
    \cup { [type |-> "Subscribe", connection_id |-> c,
            packet |-> <<SubscribeTopic(f, 0)>>] : f \in { <<"a">> } }
    \cup { [type |-> "Unsubscribe", connection_id |-> c,
            unsubscribe |-> << <<"a">> >>] }

\* A send that puts the message in front of the waiting ones.
channel_send_front(queue, msg) == <<msg>> \o queue

\* mpsc::Sender::send on a channel with room: the message waits behind the others.
channel_send(queue, msg) == Append(queue, msg)

\* The loop of on_publish from the pipeline at `index` (1-based) on, until it
\* has passed the last pipeline or is suspended in send(..).await on a full
\* channel. A send to a dropped receiver returns Err, which is logged.
RECURSIVE on_publish_from(_, _, _, _, _)
on_publish_from(ps, rx, closed, packet, index) ==
    IF index > Len(ps) THEN [rx |-> rx, index |-> index]
    ELSE LET c == ps[index].connection_id
         IN  IF ~topic_match(ps[index].topics, packet.topic)
             THEN on_publish_from(ps, rx, closed, packet, index + 1)
             ELSE IF c \in closed
             THEN on_publish_from(ps, rx, closed, packet, index + 1)
             ELSE IF Len(rx[c]) >= MaxServerRx
             THEN [rx |-> rx, index |-> index]
             ELSE on_publish_from(ps, [rx EXCEPT ![c] = channel_send(@, packet)],
                                  closed, packet, index + 1)

\* The PUBLISH commands waiting in a channel.
RECURSIVE publishes(_)
publishes(queue) ==
    IF queue = <<>> THEN 0
    ELSE (IF Head(queue).type = "Publish" THEN 1 ELSE 0) + publishes(Tail(queue))

QueueInit ==
    /\ connection_rx = <<>>
    /\ server_rx = [c \in QueueConnections |-> <<>>]
    /\ sending = None
    /\ received = [c \in QueueConnections |-> 0]
    /\ publish_seq = 0
    /\ dropped = {}
    /\ awaiting = [c \in QueueConnections |-> None]

\* run_loop, the accept branch of select!.
run_loop_new_connection ==
    /\ ~sending.some
    /\ next_connection_id(current_connection_id) \in QueueConnections
    /\ current_connection_id' = next_connection_id(current_connection_id)
    /\ pipelines' = Append(pipelines, Pipeline(current_connection_id'))
    /\ UNCHANGED queue_vars
    /\ UNCHANGED not_queue_vars

\* on_publish reaches its end, or the next full channel.
publish_progress(packet, index) ==
    LET r == on_publish_from(pipelines, server_rx, dropped, packet, index)
    IN  /\ server_rx' = r.rx
        /\ sending' = IF r.index > Len(pipelines) THEN None
                       ELSE Some([packet |-> packet, index |-> r.index])

\* run_loop, the recv branch of select!: route_cmd on the oldest command.
run_loop_route_cmd ==
    /\ ~sending.some
    /\ connection_rx # <<>>
    /\ connection_rx' = Tail(connection_rx)
    /\ LET c == Head(connection_rx)
       IN  CASE c.type = "Publish" ->
                  /\ publish_seq' = publish_seq + 1
                  /\ publish_progress([topic |-> c.publish.topic, qos |-> c.publish.qos,
                                       seq |-> publish_seq + 1], 1)
                  /\ UNCHANGED pipelines
             [] c.type = "Subscribe" ->
                  /\ pipelines' = on_subscribe(pipelines, c.connection_id, c.packet)
                  /\ UNCHANGED <<server_rx, sending, publish_seq>>
             [] c.type = "Unsubscribe" ->
                  /\ pipelines' = on_unsubscribe(pipelines, c.connection_id, c.unsubscribe)
                  /\ UNCHANGED <<server_rx, sending, publish_seq>>
             [] c.type = "Disconnect" ->
                  /\ LET pos == position(pipelines, c.connection_id)
                     IN  pipelines' = IF pos # 0 THEN remove(pipelines, pos)
                                      ELSE pipelines
                  /\ UNCHANGED <<server_rx, sending, publish_seq>>
    /\ UNCHANGED <<current_connection_id, received, dropped, awaiting>>
    /\ UNCHANGED not_queue_vars

\* The send on_publish was suspended at completes, and the loop goes on.
on_publish_resume ==
    /\ sending.some
    /\ LET c == pipelines[sending.value.index].connection_id
       IN  c \in dropped \/ Len(server_rx[c]) < MaxServerRx
    /\ publish_progress(sending.value.packet, sending.value.index)
    /\ UNCHANGED <<pipelines, current_connection_id, connection_rx, received,
                   publish_seq, dropped, awaiting>>
    /\ UNCHANGED not_queue_vars

\* The PUBLISH commands the connections are suspended at sending.
PublishesAwaiting ==
    Cardinality({ c \in QueueConnections :
                    awaiting[c].some /\ awaiting[c].value.type = "Publish" })

\* What a connection may forward next: the run is bounded in its PUBLISH
\* commands and in the subscriptions of a connection.
MaySend(c, command) ==
    /\ ~awaiting[c].some
    /\ command.type = "Publish" =>
           publish_seq + publishes(connection_rx) + PublishesAwaiting < MaxPublishes
    /\ command.type = "Subscribe" =>
           Len(on_subscribe(pipelines, c, command.packet)[
                   position(pipelines, c)].topics) <= 1

\* A connection forwards a packet of its client to the server.
connection_send ==
    \E c \in (1..current_connection_id) \ dropped :
        \E command \in ConnectionCommands(c) :
            /\ MaySend(c, command)
            /\ Len(connection_rx) < MaxConnectionRx
            /\ connection_rx' = channel_send(connection_rx, command)
            /\ UNCHANGED <<pipelines, current_connection_id, server_rx, sending,
                           received, publish_seq, dropped, awaiting>>
            /\ UNCHANGED not_queue_vars

\* A connection forwards a packet of its client while connection_rx is
\* full: its task is suspended in send(..).await.
connection_send_suspend ==
    \E c \in (1..current_connection_id) \ dropped :
        \E command \in ConnectionCommands(c) :
            /\ MaySend(c, command)
            /\ Len(connection_rx) >= MaxConnectionRx
            /\ awaiting' = [awaiting EXCEPT ![c] = Some(command)]
            /\ UNCHANGED <<pipelines, current_connection_id, connection_rx, server_rx,
                           sending, received, publish_seq, dropped>>
            /\ UNCHANGED not_queue_vars

\* The send a connection was suspended at completes.
connection_send_resume ==
    \E c \in (1..current_connection_id) \ dropped :
        /\ awaiting[c].some
        /\ Len(connection_rx) < MaxConnectionRx
        /\ connection_rx' = channel_send(connection_rx, awaiting[c].value)
        /\ awaiting' = [awaiting EXCEPT ![c] = None]
        /\ UNCHANGED <<pipelines, current_connection_id, server_rx, sending,
                       received, publish_seq, dropped>>
        /\ UNCHANGED not_queue_vars

\* A connection that is not suspended takes the oldest command of its
\* server_rx.
connection_recv ==
    \E c \in (1..current_connection_id) \ dropped :
        /\ ~awaiting[c].some
        /\ server_rx[c] # <<>>
        /\ received' = [received EXCEPT ![c] = Head(server_rx[c]).seq]
        /\ server_rx' = [server_rx EXCEPT ![c] = Tail(@)]
        /\ UNCHANGED <<pipelines, current_connection_id, connection_rx, sending,
                       publish_seq, dropped, awaiting>>
        /\ UNCHANGED not_queue_vars

\* A connection ends: it tells the server and drops its server_rx.
connection_close ==
    \E c \in (1..current_connection_id) \ dropped :
        /\ ~awaiting[c].some
        /\ Len(connection_rx) < MaxConnectionRx
        /\ connection_rx' = channel_send(connection_rx,
                                [type |-> "Disconnect", connection_id |-> c])
        /\ dropped' = dropped \cup {c}
        /\ server_rx' = [server_rx EXCEPT ![c] = <<>>]
        /\ UNCHANGED <<pipelines, current_connection_id, sending, received,
                       publish_seq, awaiting>>
        /\ UNCHANGED not_queue_vars

\* ------------------------------------------------------------------------
\* hebo/src/auth/app.rs, src/bridge/app.rs: run_loop.
\* ------------------------------------------------------------------------

Apps == {"AuthApp", "BridgeApp"}

\* The commands a send side can put on the inbound channel of an app.
\* DispatcherToBridgeCmd is an enum without variants.
AppCommands(app) ==
    IF app = "AuthApp"
    THEN { [type |-> "RequestAuth", listener_id |-> 1, session_id |-> 1,
            username |-> u, password |-> "pw1"] : u \in {"", "alice"} }
    ELSE {}

\* mpsc::Receiver::recv: the oldest command; None once the channel is empty
\* and every send side is dropped; otherwise the task stays suspended.
recv(receiver) ==
    IF receiver.queue # <<>> THEN [ready |-> TRUE, value |-> Some(Head(receiver.queue))]
    ELSE IF receiver.senders = 0 THEN [ready |-> TRUE, value |-> None]
    ELSE [ready |-> FALSE]

\* tokio::select! with the single branch `Some(cmd) = receiver.recv()` and no
\* else branch: a value that does not match the pattern disables the branch,
\* and select! panics when every branch is disabled.
select(polled) == IF polled.value.some THEN "running" ELSE "panicked"

LoopInit ==
    /\ inbound = [app \in Apps |->
                    [queue |-> <<>>,
                     senders |-> IF app = "AuthApp" THEN Cardinality(ListenerIds)
                                 ELSE Cardinality({"Dispatcher"})]]
    /\ task = [app \in Apps |-> "running"]

\* A task that holds a send side puts a command on the channel.
app_sender_sends ==
    \E app \in Apps : \E command \in AppCommands(app) :
        /\ inbound[app].senders > 0
        /\ Len(inbound[app].queue) < MaxInbound
        /\ inbound' = [inbound EXCEPT ![app].queue = Append(@, command)]
        /\ UNCHANGED <<task, auth_vars>>
        /\ UNCHANGED not_loop_vars

\* A task that holds a send side drops it.
app_sender_closes ==
    \E app \in Apps :
        /\ inbound[app].senders > 0
        /\ inbound' = [inbound EXCEPT ![app].senders = @ - 1]
        /\ UNCHANGED <<task, auth_vars>>
        /\ UNCHANGED not_loop_vars

\* AuthApp::run_loop, one turn of the loop.
auth_run_loop ==
    LET polled == recv(inbound["AuthApp"])
    IN  /\ task["AuthApp"] = "running"
        /\ polled.ready
        /\ task' = [task EXCEPT !["AuthApp"] = select(polled)]
        /\ IF polled.value.some
           THEN LET c == polled.value.value
                    h == on_listener_request_auth(allow_anonymous, file_auth,
                             listener_senders, c.listener_id, c.session_id,
                             c.username, c.password)
                IN  /\ inbound' = [inbound EXCEPT !["AuthApp"].queue = Tail(@)]
                    /\ auth_tx' = h.sent
                    /\ auth_result' = h.result
                    /\ auth_cmd' = c
           ELSE UNCHANGED <<inbound, auth_tx, auth_result, auth_cmd>>
        /\ UNCHANGED <<allow_anonymous, file_auth, listener_senders>>
        /\ UNCHANGED not_loop_vars

\* BridgeApp::run_loop, one turn of the loop; handle_dispatcher_cmd logs the
\* command and returns Ok.
bridge_run_loop ==
    LET polled == recv(inbound["BridgeApp"])
    IN  /\ task["BridgeApp"] = "running"
        /\ polled.ready
        /\ task' = [task EXCEPT !["BridgeApp"] = select(polled)]
        /\ inbound' = IF polled.value.some
                       THEN [inbound EXCEPT !["BridgeApp"].queue = Tail(@)]
                       ELSE inbound
        /\ UNCHANGED auth_vars
        /\ UNCHANGED not_loop_vars

\* ------------------------------------------------------------------------
\* src/server/mod.rs: run_loop, run_inner_loop.
\* ------------------------------------------------------------------------

QuitSignals == {"SIGTERM", "SIGQUIT", "SIGINT"}

\* After init_modules: the listeners accept, no client is connected yet.
ProcessInit ==
    /\ process = "running"
    /\ accepting = TRUE
    /\ live_sessions = {}
    /\ dispatcher_rx = <<>>
    /\ signal = "None"

\* A listener accepts a client and spawns its session.
listener_accepts ==
    \E s \in SessionIds \ live_sessions :
        /\ process = "running"
        /\ accepting
        /\ live_sessions' = live_sessions \cup {s}
        /\ UNCHANGED <<process, accepting, dispatcher_rx, signal>>
        /\ UNCHANGED not_process_vars

\* A session forwards a packet of its client towards the dispatcher.
session_forwards ==
    \E s \in live_sessions :
        /\ process = "running"
        /\ Len(dispatcher_rx) < MaxInbound
        /\ dispatcher_rx' = Append(dispatcher_rx, s)
        /\ UNCHANGED <<process, accepting, live_sessions, signal>>
        /\ UNCHANGED not_process_vars

\* The client of a session disconnects.
session_ends ==
    \E s \in live_sessions :
        /\ process = "running"
        /\ live_sessions' = live_sessions \ {s}
        /\ UNCHANGED <<process, accepting, dispatcher_rx, signal>>
        /\ UNCHANGED not_process_vars

\* The dispatcher handles the oldest command of its ingress channel.
dispatcher_handles ==
    /\ process = "running"
    /\ dispatcher_rx # <<>>
    /\ dispatcher_rx' = Tail(dispatcher_rx)
    /\ UNCHANGED <<process, accepting, live_sessions, signal>>
    /\ UNCHANGED not_process_vars

\* run_inner_loop, the branches that stay in the loop: a dashboard command
\* is handled, SIGUSR1 is logged.
run_inner_loop_continue ==
    \E event \in {"DashboardCmd", "SIGUSR1"} :
        /\ process = "running"
        /\ signal' = event
        /\ UNCHANGED <<process, accepting, live_sessions, dispatcher_rx>>
        /\ UNCHANGED not_process_vars

\* run_inner_loop, the branches of SIGTERM, SIGQUIT and SIGINT: the signal is
\* logged, the loop breaks, run_inner_loop and run_loop return Ok(()).
run_inner_loop_break ==
    \E sig \in QuitSignals :
        /\ process = "running"
        /\ signal' = sig
        /\ process' = "exited"
        /\ UNCHANGED <<accepting, live_sessions, dispatcher_rx>>
        /\ UNCHANGED not_process_vars

\* ------------------------------------------------------------------------
\* hebo/src/server.rs: run_loop.
\* ------------------------------------------------------------------------

\* The numbers of listeners a configuration can name.
ConfiguredListeners == {1, 2, 3}

\* run_loop is entered with n configured listeners: the storage channel is
\* created, the loop over config.listeners is at its first listener.
StartupInit(n) ==
    /\ run_loop_pc = [at |-> "bind", k |-> 1]
    /\ listener_task = [k \in 1..n |-> "unstarted"]
    /\ storage_task = "unstarted"
    /\ storage_rx = <<>>

\* The body of the loop up to `handle.await`: Listener::bind, whose failure
\* panics in expect(), then runtime.spawn of the listener's run_loop.
run_loop_spawn_listener ==
    \E bound \in BOOLEAN :
        /\ run_loop_pc.at = "bind"
        /\ IF bound
           THEN /\ listener_task' = [listener_task EXCEPT ![run_loop_pc.k] = "running"]
                /\ run_loop_pc' = [run_loop_pc EXCEPT !.at = "await"]
           ELSE /\ run_loop_pc' = [run_loop_pc EXCEPT !.at = "panicked"]
                /\ UNCHANGED listener_task
        /\ UNCHANGED <<storage_task, storage_rx>>
        /\ UNCHANGED not_startup_vars

\* `handle.await` returns, which it does when the listener's task has ended:
\* the loop goes to the next listener, or past the loop to Storage::new and
\* runtime.spawn of the storage's run_loop.
run_loop_handle_await ==
    /\ run_loop_pc.at = "await"
    /\ listener_task[run_loop_pc.k] = "terminated"
    /\ IF run_loop_pc.k < Len(listener_task)
       THEN /\ run_loop_pc' = [at |-> "bind", k |-> run_loop_pc.k + 1]
            /\ UNCHANGED storage_task
       ELSE /\ run_loop_pc' = [run_loop_pc EXCEPT !.at = "storage_await"]
            /\ storage_task' = "running"
    /\ UNCHANGED <<listener_task, storage_rx>>
    /\ UNCHANGED not_startup_vars

\* `storage_handle.await` returns; block_on and run_loop return Ok(()).
run_loop_storage_handle_await ==
    /\ run_loop_pc.at = "storage_await"
    /\ storage_task = "terminated"
    /\ run_loop_pc' = [run_loop_pc EXCEPT !.at = "returned"]
    /\ UNCHANGED <<listener_task, storage_task, storage_rx>>
    /\ UNCHANGED not_startup_vars

\* A running listener sends a command on its clone of storage_sender.
listener_sends_to_storage ==
    \E k \in DOMAIN listener_task :
        /\ listener_task[k] = "running"
        /\ Len(storage_rx) < MaxInbound
        /\ storage_rx' = Append(storage_rx, k)
        /\ UNCHANGED <<run_loop_pc, listener_task, storage_task>>
        /\ UNCHANGED not_startup_vars

\* The run_loop of a listener ends.
listener_terminates ==
    \E k \in DOMAIN listener_task :
        /\ listener_task[k] = "running"
        /\ listener_task' = [listener_task EXCEPT ![k] = "terminated"]
        /\ UNCHANGED <<run_loop_pc, storage_task, storage_rx>>
        /\ UNCHANGED not_startup_vars

\* The running storage takes the oldest command, or ends.
storage_run_loop ==
    \E ends \in BOOLEAN :
        /\ storage_task = "running"
        /\ IF ends
           THEN /\ storage_task' = "terminated"
                /\ UNCHANGED storage_rx
           ELSE /\ storage_rx # <<>>
                /\ storage_rx' = Tail(storage_rx)
                /\ UNCHANGED storage_task
        /\ UNCHANGED <<run_loop_pc, listener_task>>
        /\ UNCHANGED not_startup_vars

\* ------------------------------------------------------------------------
\* src/topic.rs: the calls.
\* ------------------------------------------------------------------------

\* The strings of at most MaxTopicLen characters of an alphabet.
Strings(alphabet) == UNION { [1..n -> alphabet] : n \in 0..MaxTopicLen }

\* What a client can send as a topic filter, and as a topic name.
FilterStrings == Strings({"a", "/", "+", "#", "$"})
NameStrings == Strings({"a", "/", "$"})

TopicInit(filter, name) ==
    /\ topic_filter = filter
    /\ topic_name = name
    /\ topic_out = [op |-> "None"]

\* Topic::parse(filter), and is_match(name) on the topic it returns.
call_is_match ==
    /\ LET pattern == TopicParse(topic_filter)
       IN  topic_out' = [op |-> "is_match",
                         result |-> IF pattern.ok
                                    THEN Ok(is_match(pattern.value, topic_name))
                                    ELSE pattern]
    /\ UNCHANGED <<topic_filter, topic_name>>
    /\ UNCHANGED not_topic_vars

call_validate_sub_topic ==
    /\ topic_out' = [op |-> "validate_sub_topic",
                     result |-> validate_sub_topic(topic_filter)]
    /\ UNCHANGED <<topic_filter, topic_name>>
    /\ UNCHANGED not_topic_vars

call_validate_pub_topic ==
    /\ topic_out' = [op |-> "validate_pub_topic",
                     result |-> validate_pub_topic(topic_name)]
    /\ UNCHANGED <<topic_filter, topic_name>>
    /\ UNCHANGED not_topic_vars

\* ------------------------------------------------------------------------
\* codec/src/byte_array.rs, src/v5/publish_packet.rs
\* ------------------------------------------------------------------------

\* The UTF-8 code of the characters of the model.
CharCodes == [c \in {"a", "/", "+", "#", "$", "M", "Q", "T"} |->
                CASE c = "a" -> 97 [] c = "/" -> 47 [] c = "+" -> 43
                  [] c = "#" -> 35 [] c = "$" -> 36
                  [] c = "M" -> 77 [] c = "Q" -> 81 [] c = "T" -> 84]

\* str::as_bytes.
as_bytes(string) == [i \in 1..Len(string) |-> CharCodes[string[i]]]

\* utils::to_utf8_string: the string of the bytes, or the error of a byte
\* sequence that is no string of the model.
to_utf8_string(bytes) ==
    IF \A i \in 1..Len(bytes) : \E c \in DOMAIN CharCodes : CharCodes[c] = bytes[i]
    THEN Ok([i \in 1..Len(bytes) |->
                CHOOSE c \in DOMAIN CharCodes : CharCodes[c] = bytes[i]])
    ELSE Err("InvalidString")

\* A panic of the thread that called: no value is returned.
Panic(message) == [ok |-> FALSE, error |-> message, panic |-> TRUE]

Panicked(result) == "panic" \in DOMAIN result

\* ByteArray::new.
ByteArrayNew(data) == [offset |-> 0, data |-> data]

\* ByteArray::read_bytes: the cursor moves before the range is checked.
read_bytes(ba, len) ==
    LET offset == ba.offset + len
    IN  [ba |-> [ba EXCEPT !.offset = offset],
         result |-> IF offset > Len(ba.data) THEN Err("OutOfRangeError")
                    ELSE Ok(SubSeq(ba.data, offset - len + 1, offset))]

\* ByteArray::read_byte.
read_byte(ba) ==
    LET offset == ba.offset + 1
    IN  [ba |-> [ba EXCEPT !.offset = offset],
         result |-> IF offset > Len(ba.data) THEN Err("OutOfRangeError")
                    ELSE Ok(ba.data[offset])]

\* ByteArray::read_u16, big endian.
read_u16(ba) ==
    LET r == read_bytes(ba, 2)
    IN  [ba |-> r.ba,
         result |-> IF r.result.ok
                    THEN Ok(r.result.value[1] * 256 + r.result.value[2])
                    ELSE r.result]

\* ByteArray::read_string.
read_string(ba, len) ==
    LET r == read_bytes(ba, len)
    IN  [ba |-> r.ba,
         result |-> IF r.result.ok THEN to_utf8_string(r.result.value) ELSE r.result]

\* ByteArray::read_u32, big endian.
read_u32(ba) ==
    LET r == read_bytes(ba, 4)
    IN  [ba |-> r.ba,
         result |-> IF r.result.ok
                    THEN Ok(((r.result.value[1] * 256 + r.result.value[2]) * 256
                             + r.result.value[3]) * 256 + r.result.value[4])
                    ELSE r.result]

\* ByteArray::remaining_bytes, with its assert!.
remaining_bytes(ba) ==
    IF ~(ba.offset <= Len(ba.data))
    THEN Panic("assertion failed: self.offset <= self.data.len()")
    ELSE Ok(Len(ba.data) - ba.offset)

\* ByteArray::reset_offset.
reset_offset(ba) == [ba EXCEPT !.offset = 0]

\* WriteBytesExt::write_u16::<BigEndian>.
write_u16(value) == << (value \div 256) % 256, value % 256 >>

\* The variable byte integer of the remaining length: base 128, low group
\* first, bit 7 set on every byte but the last.
RECURSIVE encode_remaining_length(_)
encode_remaining_length(n) ==
    IF n < 128 THEN <<n>>
    ELSE <<(n % 128) + 128>> \o encode_remaining_length(n \div 128)

\* The variable byte integer at the cursor, of at most `left` more bytes.
RECURSIVE decode_remaining_length(_, _)
decode_remaining_length(ba, left) ==
    LET r == read_byte(ba)
    IN  IF ~r.result.ok THEN r
        ELSE IF r.result.value < 128 THEN r
        ELSE IF left = 1 THEN [ba |-> r.ba, result |-> Err("InvalidRemainingLength")]
        ELSE LET rest == decode_remaining_length(r.ba, left - 1)
             IN  IF ~rest.result.ok THEN rest
                 ELSE [ba |-> rest.ba,
                       result |-> Ok((r.result.value - 128) + 128 * rest.result.value)]

\* FixedHeader::encode for PacketType::Publish: the type nibble 3, the flags
\* DUP, QoS (2 bits), RETAIN, then the remaining length.
FixedHeaderEncodePublish(dup, qos, retained, remaining_length) ==
    << 3 * 16 + (IF dup THEN 8 ELSE 0) + qos * 2 + (IF retained THEN 1 ELSE 0) >>
    \o encode_remaining_length(remaining_length)

\* The packet types the decoders of the model ask for, by their nibble.
PacketTypeName(nibble) ==
    CASE nibble = 1 -> "Connect"
      [] nibble = 3 -> "Publish"
      [] nibble = 5 -> "PublishReceived"
      [] nibble = 8 -> "Subscribe"
      [] nibble = 11 -> "UnsubscribeAck"
      [] nibble = 14 -> "Disconnect"
      [] OTHER -> "Other"

\* The flags nibble of a packet type without flags of its own: 0b0010 for
\* PUBREL, SUBSCRIBE and UNSUBSCRIBE, 0b0000 for the others.
ReservedFlags(nibble) == IF nibble \in {6, 8, 10} THEN 2 ELSE 0

\* FixedHeader::new and FixedHeader::encode for a packet type without flags
\* of its own.
FixedHeaderEncode(nibble, remaining_length) ==
    << nibble * 16 + ReservedFlags(nibble) >> \o encode_remaining_length(remaining_length)

\* FixedHeader::decode: the packet type with its flags, and the remaining length.
FixedHeaderDecode(ba) ==
    LET first == read_byte(ba)
    IN  IF ~first.result.ok THEN first
        ELSE LET byte == first.result.value
                 flags == byte % 16
                 qos == (flags \div 2) % 4
                 len == decode_remaining_length(first.ba, 4)
             IN  IF byte \div 16 = 3 /\ qos = 3
                 THEN [ba |-> first.ba, result |-> Err("InvalidQoS")]
                 ELSE IF byte \div 16 # 3 /\ flags # ReservedFlags(byte \div 16)
                 THEN [ba |-> first.ba, result |-> Err("InvalidPacketFlags")]
                 ELSE IF ~len.result.ok THEN len
                 ELSE [ba |-> len.ba,
                       result |-> Ok([packet_type |->
                                         IF byte \div 16 = 3
                                         THEN [name |-> "Publish", dup |-> flags >= 8,
                                               qos |-> qos, retain |-> flags % 2 = 1]
                                         ELSE [name |-> PacketTypeName(byte \div 16)],
                                      remaining_length |-> len.result.value])]

TOPIC_LENGTH_BYTES == 2
PACKET_ID_BYTES == 2

\* PublishPacket::encode, into an empty Vec.
PublishEncode(self) ==
    LET remaining_length ==
            TOPIC_LENGTH_BYTES + Len(self.topic) + Len(self.msg)
            + (IF self.qos # 0 THEN PACKET_ID_BYTES ELSE 0)
    IN  Ok(FixedHeaderEncodePublish(self.dup, self.qos, self.retain, remaining_length)
           \o write_u16(Len(self.topic))
           \o as_bytes(self.topic)
           \o (IF self.qos # 0 THEN write_u16(self.packet_id) ELSE <<>>)
           \o self.msg)

\* PublishPacket::decode, from the topic length on: what follows the checks
\* of the flags of the fixed header.
PublishDecodeBody(ba, fixed_header) ==
    LET qos == fixed_header.packet_type.qos
        topic_len == read_u16(ba)
    IN  IF ~topic_len.result.ok THEN topic_len.result
        ELSE
        LET topic == read_string(topic_len.ba, topic_len.result.value)
        IN  IF ~topic.result.ok THEN topic.result
            ELSE IF ~validate_pub_topic(topic.result.value).ok
            THEN validate_pub_topic(topic.result.value)
            ELSE
            LET packet_id == IF qos # 0 THEN read_u16(topic.ba)
                             ELSE [ba |-> topic.ba, result |-> Ok(0)]
            IN  IF ~packet_id.result.ok THEN packet_id.result
                ELSE IF qos # 0 /\ packet_id.result.value = 0
                THEN Err("InvalidPacketId")
                ELSE IF fixed_header.remaining_length
                           < topic_len.result.value + TOPIC_LENGTH_BYTES
                THEN Err("InvalidRemainingLength")
                ELSE
                LET msg_len == fixed_header.remaining_length - TOPIC_LENGTH_BYTES
                                   - topic_len.result.value
                IN  IF qos # 0 /\ msg_len < PACKET_ID_BYTES
                    THEN Err("InvalidRemainingLength")
                    ELSE
                    LET msg == read_bytes(packet_id.ba,
                                   IF qos # 0 THEN msg_len - PACKET_ID_BYTES
                                   ELSE msg_len)
                    IN  IF ~msg.result.ok THEN msg.result
                        ELSE Ok([dup |-> fixed_header.packet_type.dup,
                                 qos |-> qos,
                                 retain |-> fixed_header.packet_type.retain,
                                 topic |-> topic.result.value,
                                 packet_id |-> packet_id.result.value,
                                 msg |-> msg.result.value])

\* PublishPacket::decode.
PublishDecode(data) ==
    LET h == FixedHeaderDecode(ByteArrayNew(data))
    IN  IF ~h.result.ok THEN h.result
        ELSE IF h.result.value.packet_type.name # "Publish"
        THEN Err("InvalidPacketType")
        ELSE IF h.result.value.packet_type.dup /\ h.result.value.packet_type.qos = 0
        THEN Err("InvalidPacketFlags")
        ELSE IF h.result.value.packet_type.dup /\ h.result.value.packet_type.qos = 1
        THEN Err("InvalidPacketFlags")
        ELSE PublishDecodeBody(h.ba, h.result.value)

\* The PUBLISH packets given to encode: every combination of the flags, a
\* one-level and a two-level topic, packet ids with a zero and a non-zero
\* high byte, with and without payload.
PublishInputs ==
    [dup : BOOLEAN, qos : QoS, retain : BOOLEAN,
     topic : { <<"a">>, <<"a", "/", "a">> },
     packet_id : {0, 1, 258},
     msg : { <<>>, <<7, 200>> }]

CodecInit(packet) ==
    /\ packet_in = packet
    /\ encoded = None
    /\ decoded = None

\* encode(&self, &mut Vec::new()).
call_encode ==
    /\ encoded' = Some(PublishEncode(packet_in))
    /\ decoded' = None
    /\ UNCHANGED packet_in
    /\ UNCHANGED not_codec_vars

\* decode on the bytes encode produced.
call_decode ==
    /\ encoded.some
    /\ encoded.value.ok
    /\ decoded' = Some(PublishDecode(encoded.value.value))
    /\ UNCHANGED <<packet_in, encoded>>
    /\ UNCHANGED not_codec_vars

\* ------------------------------------------------------------------------
\* src/base.rs: the fixed header of one byte.
\* ------------------------------------------------------------------------

\* enum PacketType as u8.
PacketTypes == 0..15

\* enum PacketFlags; dup, qos and retain are those of PacketFlags::Publish.
PacketFlagsReserved ==
    [kind |-> "Reserved", dup |-> FALSE, qos |-> 0, retain |-> FALSE]

PacketFlagsSubscribe ==
    [kind |-> "Subscribe", dup |-> FALSE, qos |-> 0, retain |-> FALSE]

PacketFlags ==
    {PacketFlagsReserved, PacketFlagsSubscribe}
    \cup [kind : {"Publish"}, dup : BOOLEAN, qos : QoS, retain : BOOLEAN]

\* struct FixedHeader of base.rs.
BaseFixedHeaders == [packet_type : PacketTypes, packet_flags : PacketFlags]

\* a + b on u8: a build with overflow checks panics on overflow, a build
\* without them wraps.
u8_add(a, b) ==
    IF a + b < 256 THEN {Ok(a + b)}
    ELSE {Panic("attempt to add with overflow"), Ok((a + b) % 256)}

\* The dup bit FixedHeader::to_net adds: the literal 0b0000_10000.
DupBit == 16

\* FixedHeader::to_net of base.rs into an empty Vec: the set of outcomes.
BaseFixedHeaderToNet(self) ==
    LET packet_type == (self.packet_type % 16) * 16
        f == self.packet_flags
        packet_flags ==
            CASE f.kind = "Reserved" -> 0
              [] f.kind = "Publish" ->
                    (IF f.dup THEN DupBit ELSE 0) + f.qos * 2
                    + (IF f.retain THEN 1 ELSE 0)
              [] f.kind = "Subscribe" -> 2
    IN  { IF r.ok THEN Ok(<<r.value>>) ELSE r : r \in u8_add(packet_type, packet_flags) }

\* FixedHeader::from_net of base.rs.
BaseFixedHeaderFromNet(buf) ==
    IF Len(buf) = 0 THEN Err("PacketEmpty")
    ELSE IF buf[1] % 16 = 0
         THEN Ok([packet_type |-> buf[1] \div 16, packet_flags |-> PacketFlagsReserved])
         ELSE Err("InvalidFixedHeader")

\* ------------------------------------------------------------------------
\* The calls of the packet codecs: a packet given to an encoder, or bytes
\* received from the network given to a decoder.
\* ------------------------------------------------------------------------

\* A packet to encode with the codec named.
GivenPacket(codec, packet) == [codec |-> codec, given |-> "packet", value |-> packet]

\* Bytes to decode with the codec named.
GivenBytes(codec) == [codec |-> codec, given |-> "bytes"]

PacketInit(input, bytes) ==
    /\ packet_in = input
    /\ encoded = bytes
    /\ decoded = None

\* This step is the encoder of the codec named, on the packet given.
Encodes(codec) ==
    /\ packet_in.codec = codec
    /\ packet_in.given = "packet"
    /\ encoded = None
    /\ UNCHANGED <<packet_in, decoded>>
    /\ UNCHANGED not_codec_vars

\* This step is the decoder of the codec named, on the bytes at hand.
Decodes(codec) ==
    /\ packet_in.codec = codec
    /\ encoded.some
    /\ encoded.value.ok
    /\ decoded = None
    /\ UNCHANGED <<packet_in, encoded>>
    /\ UNCHANGED not_codec_vars

\* The bytes at hand.
Bytes == encoded.value.value

\* Every header, and every first byte with and without a byte behind it.
FixedHeaderInputs ==
    { <<GivenPacket("FixedHeader", h), None>> : h \in BaseFixedHeaders }
    \cup { <<GivenBytes("FixedHeader"), Some(Ok(<<b>>))>> : b \in 0..255 }
    \cup { <<GivenBytes("FixedHeader"), Some(Ok(<<>>))>> }

fixed_header_to_net ==
    /\ Encodes("FixedHeader")
    /\ \E out \in BaseFixedHeaderToNet(packet_in.value) : encoded' = Some(out)

fixed_header_from_net ==
    /\ Decodes("FixedHeader")
    /\ decoded' = Some(BaseFixedHeaderFromNet(Bytes))

\* ------------------------------------------------------------------------
\* codec/src/v3/subscribe_packet.rs
\* ------------------------------------------------------------------------

\* SubTopic::bytes: the length prefix and the bytes of the filter.
SubTopicBytes(topic) == 2 + Len(topic)

\* SubTopic::encode.
SubTopicEncode(topic) == write_u16(Len(topic)) \o as_bytes(topic)

\* SubTopic::decode: a string with its length prefix that is a topic filter.
SubTopicDecode(ba) ==
    LET len == read_u16(ba)
    IN  IF ~len.result.ok THEN len
        ELSE LET topic == read_string(len.ba, len.result.value)
             IN  IF ~topic.result.ok THEN topic
                 ELSE IF ~validate_sub_topic(topic.result.value).ok
                 THEN [ba |-> topic.ba, result |-> Err("InvalidTopicFilter")]
                 ELSE topic

\* SubscribeTopic::bytes without the byte of the QoS.
SubscribeTopicBytesShort(self) == SubTopicBytes(self.topic)

\* SubscribeTopic::bytes.
SubscribeTopicBytes(self) == 1 + SubTopicBytes(self.topic)

\* SubscribeTopic::encode: the bytes pushed.
SubscribeTopicEncode(self) == SubTopicEncode(self.topic) \o << self.qos % 4 >>

\* SubscribeTopic::decode.
SubscribeTopicDecode(ba) ==
    LET topic == SubTopicDecode(ba)
    IN  IF ~topic.result.ok THEN topic
        ELSE LET qos_flag == read_byte(topic.ba)
             IN  IF ~qos_flag.result.ok THEN qos_flag
                 ELSE IF qos_flag.result.value \div 16 # 0
                 THEN [ba |-> qos_flag.ba, result |-> Err("InvalidQoS")]
                 ELSE IF qos_flag.result.value % 4 = 3
                 THEN [ba |-> qos_flag.ba, result |-> Err("InvalidQoS")]
                 ELSE [ba |-> qos_flag.ba,
                       result |-> Ok(SubscribeTopic(topic.result.value,
                                                    qos_flag.result.value % 4))]

\* The sum of SubscribeTopic::bytes over the topics.
RECURSIVE SubscribeTopicsBytes(_)
SubscribeTopicsBytes(topics) ==
    IF topics = <<>> THEN 0
    ELSE SubscribeTopicBytes(Head(topics)) + SubscribeTopicsBytes(Tail(topics))

RECURSIVE SubscribeTopicsEncode(_)
SubscribeTopicsEncode(topics) ==
    IF topics = <<>> THEN <<>>
    ELSE SubscribeTopicEncode(Head(topics)) \o SubscribeTopicsEncode(Tail(topics))

\* SubscribePacket::encode: the buffer afterwards and the value returned.
SubscribeEncode(self, buf) ==
    LET remaining_length == 2 + SubscribeTopicsBytes(self.topics)
        after == buf \o FixedHeaderEncode(8, remaining_length)
                     \o write_u16(self.packet_id)
                     \o SubscribeTopicsEncode(self.topics)
    IN  [buf |-> after, result |-> Ok(Len(after) - Len(buf))]

\* The loop of SubscribePacket::decode over the topic/QoS list.
RECURSIVE SubscribeDecodeTopics(_, _, _, _)
SubscribeDecodeTopics(ba, remaining_length, declared, topics) ==
    IF remaining_length < declared
    THEN LET topic == SubscribeTopicDecode(ba)
         IN  IF ~topic.result.ok THEN topic.result
             ELSE SubscribeDecodeTopics(topic.ba,
                      remaining_length + SubscribeTopicBytes(topic.result.value),
                      declared, Append(topics, topic.result.value))
    ELSE IF topics = <<>> THEN Err("EmptyTopicFilter")
    ELSE Ok(topics)

\* SubscribePacket::decode.
SubscribeDecode(data) ==
    LET h == FixedHeaderDecode(ByteArrayNew(data))
    IN  IF ~h.result.ok THEN h.result
        ELSE IF h.result.value.packet_type.name # "Subscribe"
        THEN Err("InvalidPacketType")
        ELSE LET packet_id == read_u16(h.ba)
             IN  IF ~packet_id.result.ok THEN packet_id.result
                 ELSE IF packet_id.result.value = 0 THEN Err("InvalidPacketId")
                 ELSE LET topics == SubscribeDecodeTopics(packet_id.ba, 2,
                                        h.result.value.remaining_length, <<>>)
                      IN  IF ~topics.ok THEN topics
                          ELSE Ok([packet_id |-> packet_id.result.value,
                                   topics |-> topics.value])

\* The (filter, QoS) entries of the SUBSCRIBE packets of the input set.
SubscribeEntries ==
    { SubscribeTopic(<<"a">>, 0), SubscribeTopic(<<"a", "/", "#">>, 1),
      SubscribeTopic(<<"+">>, 2) }

\* The non-empty lists of at most two entries.
SubscribeTopicLists ==
    { <<e>> : e \in SubscribeEntries }
    \cup { <<e1, e2>> : e1 \in SubscribeEntries, e2 \in SubscribeEntries }

\* struct SubscribePacket, with the packet ids 0, 1 and 258.
V3SubscribePackets(packet_ids) == [packet_id : packet_ids, topics : SubscribeTopicLists]

\* The bytes of a SUBSCRIBE packet with another remaining length declared in
\* the fixed header.
WithDeclared(bytes, declared) == [bytes EXCEPT ![2] = declared]

\* The bytes that follow the packet in the buffer: none, or an entry "a", QoS 0.
BufferTails == { <<>>, <<0, 1, 97, 0>> }

\* Bytes given to a decoder together with what they were built from.
GivenBytesOf(codec, made_of) == [codec |-> codec, given |-> "bytes", value |-> made_of]

\* The SUBSCRIBE packets with a non-zero packet id, and the bytes of SUBSCRIBE
\* packets with every remaining length up to one more than their own, followed
\* by nothing or by another entry.
SubscribeInputs ==
    { <<GivenPacket("v3::SubscribePacket", p), None>> : p \in V3SubscribePackets({1, 258}) }
    \cup UNION { UNION { {
            << GivenBytesOf("v3::SubscribePacket",
                            [packet |-> p, declared |-> d, tail |-> t]),
               Some(Ok(WithDeclared(SubscribeEncode(p, <<>>).buf, d) \o t)) >>
            : d \in 0..(3 + SubscribeTopicsBytes(p.topics)) }
          : t \in BufferTails }
        : p \in V3SubscribePackets({0, 1}) }

\* SubscribePacket::encode on an empty buffer or on one that holds a byte:
\* the bytes appended and the value returned.
v3_subscribe_encode ==
    /\ Encodes("v3::SubscribePacket")
    /\ \E buf \in { <<>>, <<192>> } :
          LET out == SubscribeEncode(packet_in.value, buf)
          IN  encoded' = Some([ok |-> TRUE,
                               value |-> SubSeq(out.buf, Len(buf) + 1, Len(out.buf)),
                               returned |-> out.result.value,
                               old_len |-> Len(buf)])

v3_subscribe_decode ==
    /\ Decodes("v3::SubscribePacket")
    /\ decoded' = Some(SubscribeDecode(Bytes))

\* The bytes of every PUBLISH packet of the input set, a zero packet id at
\* QoS 1 and 2 included.
PublishBytesInputs ==
    { << GivenBytesOf("v5::PublishPacket", p), Some(PublishEncode(p)) >> : p \in PublishInputs }

v5_publish_decode ==
    /\ Decodes("v5::PublishPacket")
    /\ decoded' = Some(PublishDecode(Bytes))

\* ------------------------------------------------------------------------
\* src/v3/connect_packet.rs, src/v5/connect_packet.rs
\* ------------------------------------------------------------------------

\* StringData::encode and BinaryData::encode: the two bytes of the length,
\* then the bytes.
LengthPrefixed(bytes) == write_u16(Len(bytes)) \o bytes

\* BinaryData::decode.
BinaryDataDecode(ba) ==
    LET len == read_u16(ba)
    IN  IF ~len.result.ok THEN len ELSE read_bytes(len.ba, len.result.value)

\* StringData::decode.
StringDataDecode(ba) ==
    LET len == read_u16(ba)
    IN  IF ~len.result.ok THEN len ELSE read_string(len.ba, len.result.value)

\* PubTopic::decode: a string that is a topic name.
PubTopicDecode(ba) ==
    LET topic == StringDataDecode(ba)
    IN  IF ~topic.result.ok THEN topic
        ELSE IF ~validate_pub_topic(topic.result.value).ok
        THEN [ba |-> topic.ba, result |-> Err("InvalidTopic")]
        ELSE topic

\* consts::PROTOCOL_NAME.
PROTOCOL_NAME == <<"M", "Q", "T", "T">>

\* enum ProtocolLevel as u8.
ProtocolLevels == {3, 4, 5}

\* struct ConnectFlags.
ConnectFlags ==
    [username : BOOLEAN, password : BOOLEAN, will_retain : BOOLEAN, will_qos : QoS,
     will : BOOLEAN, clean_session : BOOLEAN]

\* ConnectFlags::encode: the byte of the flags.
ConnectFlagsEncode(self) ==
    (IF self.username THEN 128 ELSE 0) + (IF self.password THEN 64 ELSE 0)
    + (IF self.will_retain THEN 32 ELSE 0) + self.will_qos * 8
    + (IF self.will THEN 4 ELSE 0) + (IF self.clean_session THEN 2 ELSE 0)

\* ConnectFlags::decode of a byte whose will-QoS bits are a QoS.
ConnectFlagsDecode(ba) ==
    LET flags == read_byte(ba)
    IN  IF ~flags.result.ok THEN flags
        ELSE [ba |-> flags.ba,
              result |-> Ok([username |-> (flags.result.value \div 128) % 2 = 1,
                             password |-> (flags.result.value \div 64) % 2 = 1,
                             will_retain |-> (flags.result.value \div 32) % 2 = 1,
                             will_qos |-> (flags.result.value \div 8) % 4,
                             will |-> (flags.result.value \div 4) % 2 = 1,
                             clean_session |-> (flags.result.value \div 2) % 2 = 1])]

\* The property identifiers of the model: PayloadFormatIndicator (a byte) and
\* ReceiveMaximum (two bytes).
PayloadFormatIndicator == 1
ReceiveMaximum == 33

\* CONNECT_PROPERTIES and CONNECT_WILL_PROPERTIES, among the identifiers of
\* the model.
CONNECT_PROPERTIES == {ReceiveMaximum}
CONNECT_WILL_PROPERTIES == {PayloadFormatIndicator}

\* The properties of a property list of `left` bytes.
RECURSIVE PropertyListDecode(_, _)
PropertyListDecode(ba, left) ==
    IF left <= 0 THEN [ba |-> ba, result |-> Ok(<<>>)]
    ELSE LET id == read_byte(ba)
         IN  IF ~id.result.ok THEN id
             ELSE IF id.result.value \notin {PayloadFormatIndicator, ReceiveMaximum}
             THEN [ba |-> id.ba, result |-> Err("InvalidPropertyType")]
             ELSE LET v == IF id.result.value = ReceiveMaximum
                           THEN read_u16(id.ba) ELSE read_byte(id.ba)
                      rest == PropertyListDecode(v.ba,
                                  left - (IF id.result.value = ReceiveMaximum THEN 3 ELSE 2))
                  IN  IF ~v.result.ok THEN v
                      ELSE IF ~rest.result.ok THEN rest
                      ELSE [ba |-> rest.ba,
                            result |-> Ok(<<[id |-> id.result.value,
                                             value |-> v.result.value]>>
                                          \o rest.result.value)]

\* Properties::decode: the length of the list, a variable byte integer, then
\* the properties.
PropertiesDecode(ba) ==
    LET len == decode_remaining_length(ba, 4)
    IN  IF ~len.result.ok THEN len ELSE PropertyListDecode(len.ba, len.result.value)

\* check_property_type_list.
check_property_type_list(properties, types) ==
    \A i \in 1..Len(properties) : properties[i].id \in types

\* The two checks of the connect flags in ConnectPacket::decode, without the
\* one of the password.
InvalidConnectFlagsWillOnly(connect_flags) ==
    ~connect_flags.will /\ (connect_flags.will_qos # 0 \/ connect_flags.will_retain)

\* The two checks of the connect flags in ConnectPacket::decode.
InvalidConnectFlags(connect_flags) ==
    \/ ~connect_flags.will /\ (connect_flags.will_qos # 0 \/ connect_flags.will_retain)
    \/ ~connect_flags.username /\ connect_flags.password

\* The check of the client id in ConnectPacket::decode, without the clean
\* session.
ClientIdMissingAlways(client_id, connect_flags) == client_id = <<>>

\* The check of the client id in ConnectPacket::decode.
ClientIdMissing(client_id, connect_flags) ==
    client_id = <<>> /\ ~connect_flags.clean_session

\* utils::validate_keep_alive: every u16 is a keep alive.
validate_keep_alive(keep_alive) ==
    IF keep_alive \in 0..U16Max THEN Ok("unit") ELSE Err("OutOfRange")

\* ConnectPacket::encode of v3 and of v5, which are the same statements, into
\* an empty Vec: the properties and the will properties are not written.
ConnectEncode(self) ==
    LET flags == self.connect_flags
        will_topic == IF self.will_topic.some THEN self.will_topic.value ELSE <<>>
        remaining_length ==
            (2 + Len(self.protocol_name)) + 1 + 1 + 2 + (2 + Len(self.client_id))
            + (IF flags.will THEN (2 + Len(will_topic)) + (2 + Len(self.will_message))
               ELSE 0)
            + (IF flags.username THEN 2 + Len(self.username) ELSE 0)
            + (IF flags.password THEN 2 + Len(self.password) ELSE 0)
    IN  IF flags.will /\ ~self.will_topic.some
        THEN Panic("assertion failed: self.will_topic.is_some()")
        ELSE Ok(FixedHeaderEncode(1, remaining_length)
                \o LengthPrefixed(as_bytes(self.protocol_name))
                \o << self.protocol_level >>
                \o << ConnectFlagsEncode(flags) >>
                \o write_u16(self.keep_alive)
                \o LengthPrefixed(as_bytes(self.client_id))
                \o (IF flags.will
                    THEN LengthPrefixed(as_bytes(will_topic))
                         \o LengthPrefixed(self.will_message)
                    ELSE <<>>)
                \o (IF flags.username THEN LengthPrefixed(as_bytes(self.username))
                    ELSE <<>>)
                \o (IF flags.password THEN LengthPrefixed(self.password) ELSE <<>>))

\* The `?` of Rust on a value read from the byte array: the error is
\* returned, or the rest is evaluated with the cursor and the value read.
Try(r, rest(_, _)) == IF r.result.ok THEN rest(r.ba, r.result.value) ELSE r.result

\* Result::map_err on a value read from the byte array.
map_err(r, error) == IF r.result.ok THEN r ELSE [ba |-> r.ba, result |-> Err(error)]

\* A field that is read when its flag is set and is empty otherwise.
IfFlag(flag, r, ba) == IF flag THEN r ELSE [ba |-> ba, result |-> Ok(<<>>)]

\* ConnectPacket::decode of v3 (version 3) and of v5 (version 5); version 5
\* reads the properties and the will properties after the password.
ConnectDecode(version, data) ==
    Try(FixedHeaderDecode(ByteArrayNew(data)), LAMBDA ba1, fixed_header :
    IF fixed_header.packet_type.name # "Connect" THEN Err("InvalidPacketType") ELSE
    Try(StringDataDecode(ba1), LAMBDA ba2, protocol_name :
    IF protocol_name # PROTOCOL_NAME THEN Err("InvalidProtocolName") ELSE
    Try(read_byte(ba2), LAMBDA ba3, protocol_level :
    IF protocol_level \notin ProtocolLevels THEN Err("InvalidProtocolLevel") ELSE
    Try(ConnectFlagsDecode(ba3), LAMBDA ba4, connect_flags :
    IF InvalidConnectFlags(connect_flags) THEN Err("InvalidConnectFlags") ELSE
    Try(read_u16(ba4), LAMBDA ba5, keep_alive :
    IF ~validate_keep_alive(keep_alive).ok THEN validate_keep_alive(keep_alive) ELSE
    Try(map_err(StringDataDecode(ba5), "InvalidClientId"), LAMBDA ba6, client_id :
    IF ClientIdMissing(client_id, connect_flags) THEN Err("InvalidClientId") ELSE
    Try(IfFlag(connect_flags.will, PubTopicDecode(ba6), ba6), LAMBDA ba7, will_topic :
    Try(IfFlag(connect_flags.will, BinaryDataDecode(ba7), ba7), LAMBDA ba8, will_message :
    Try(IfFlag(connect_flags.username, StringDataDecode(ba8), ba8), LAMBDA ba9, username :
    Try(IfFlag(connect_flags.password, BinaryDataDecode(ba9), ba9), LAMBDA ba10, password :
    Try(IfFlag(version = 5, PropertiesDecode(ba10), ba10), LAMBDA ba11, properties :
    IF ~check_property_type_list(properties, CONNECT_PROPERTIES)
    THEN Err("InvalidPropertyType") ELSE
    Try(IfFlag(version = 5, PropertiesDecode(ba11), ba11), LAMBDA ba12, will_properties :
    IF ~check_property_type_list(will_properties, CONNECT_WILL_PROPERTIES)
    THEN Err("InvalidPropertyType") ELSE
    Ok([protocol_name |-> protocol_name,
        protocol_level |-> protocol_level,
        connect_flags |-> connect_flags,
        keep_alive |-> keep_alive,
        properties |-> properties,
        client_id |-> client_id,
        will_properties |-> will_properties,
        will_topic |-> IF connect_flags.will THEN Some(will_topic) ELSE None,
        will_message |-> will_message,
        username |-> username,
        password |-> password])))))))))))))

\* The CONNECT packets the constructor and the setters build: every value of
\* the connect flags, an empty and a non-empty client id, a will topic set or
\* not, and for version 5 the properties and the will properties set or not.
\* The version 3 packet has no properties.
ConnectPackets(version) ==
    { [protocol_name |-> PROTOCOL_NAME,
       protocol_level |-> IF version = 5 THEN 5 ELSE 4,
       connect_flags |-> flags,
       keep_alive |-> 60,
       properties |-> props,
       client_id |-> client_id,
       will_properties |-> will_props,
       will_topic |-> will_topic,
       will_message |-> IF will_topic.some THEN <<9>> ELSE <<>>,
       username |-> IF flags.username THEN <<"a">> ELSE <<>>,
       password |-> IF flags.password THEN <<7>> ELSE <<>>]
      : flags \in ConnectFlags,
        client_id \in { <<>>, <<"a">> },
        will_topic \in { None, Some(<<"a", "/", "a">>) },
        props \in IF version = 5
                  THEN { <<>>, <<[id |-> ReceiveMaximum, value |-> 5]>> }
                  ELSE { <<>> },
        will_props \in IF version = 5
                       THEN { <<>>, <<[id |-> PayloadFormatIndicator, value |-> 1]>> }
                       ELSE { <<>> } }

\* The codec of ConnectPacket of a version.
ConnectCodec(version) == IF version = 5 THEN "v5::ConnectPacket" ELSE "v3::ConnectPacket"

\* The connect-flags bytes whose will-QoS bits are a QoS.
ConnectFlagsBytes == { b \in 0..255 : (b \div 8) % 4 # 3 }

\* What follows the connect flags in the bytes given to decode: nothing, one
\* byte, a keep alive with the client id "a", or three bytes 255.
ConnectRests == { <<>>, <<0>>, <<0, 60, 0, 1, 97>>, <<255, 255, 255>> }

\* The bytes of a CONNECT packet up to the connect flags, and what follows.
ConnectBytes(version, flags, rest) ==
    FixedHeaderEncode(1, 8 + Len(rest))
    \o LengthPrefixed(as_bytes(PROTOCOL_NAME))
    \o << IF version = 5 THEN 5 ELSE 4 >>
    \o << flags >>
    \o rest

ConnectInputs ==
    UNION { { <<GivenPacket(ConnectCodec(version), p), None>> : p \in ConnectPackets(version) }
            \cup { << GivenBytesOf(ConnectCodec(version), [flags |-> b, rest |-> rest]),
                      Some(Ok(ConnectBytes(version, b, rest))) >>
                   : b \in ConnectFlagsBytes, rest \in ConnectRests }
          : version \in {3, 5} }

v3_connect_encode ==
    /\ Encodes("v3::ConnectPacket")
    /\ encoded' = Some(ConnectEncode(packet_in.value))

v3_connect_decode ==
    /\ Decodes("v3::ConnectPacket")
    /\ decoded' = Some(ConnectDecode(3, Bytes))

v5_connect_encode ==
    /\ Encodes("v5::ConnectPacket")
    /\ encoded' = Some(ConnectEncode(packet_in.value))

v5_connect_decode ==
    /\ Decodes("v5::ConnectPacket")
    /\ decoded' = Some(ConnectDecode(5, Bytes))

\* ------------------------------------------------------------------------
\* The from_net decoders of the acknowledgement and subscribe packets.
\* codec/src/publish_received_packet.rs, codec/src/disconnect_packet.rs,
\* src/unsubscribe_ack_packet.rs, hebo/src/codec/subscribe_packet.rs
\* ------------------------------------------------------------------------

\* &buf[from..to]: a range that ends past the buffer panics.
Slice(buf, from, to) ==
    IF to > Len(buf) THEN Panic("range end index out of range for slice")
    ELSE Ok(SubSeq(buf, from + 1, to))

\* buf[index]: an index past the buffer panics.
Index(buf, index) ==
    IF index >= Len(buf) THEN Panic("index out of bounds") ELSE Ok(buf[index + 1])

\* BigEndian::read_u16 of a slice.
BigEndianU16(slice) == IF slice.ok THEN Ok(slice.value[1] * 256 + slice.value[2]) ELSE slice

\* assert_eq!(fixed_header.packet_type, PacketType::X).
AssertPacketType(fixed_header, name) ==
    IF fixed_header.packet_type.name = name THEN Ok("unit")
    ELSE Panic("assertion failed: left == right")

\* PublishReceivedPacket::from_net with *offset = 0.
PublishReceivedFromNet(buf) ==
    LET fixed_header == FixedHeaderDecode(ByteArrayNew(buf))
        packet_id == BigEndianU16(Slice(buf, fixed_header.ba.offset,
                                        fixed_header.ba.offset + 2))
    IN  IF ~fixed_header.result.ok THEN fixed_header.result
        ELSE IF ~AssertPacketType(fixed_header.result.value, "PublishReceived").ok
        THEN AssertPacketType(fixed_header.result.value, "PublishReceived")
        ELSE IF ~packet_id.ok THEN packet_id
        ELSE Ok([packet_id |-> packet_id.value])

\* DisconnectPacket::from_net with *offset = 0.
DisconnectFromNet(buf) ==
    LET fixed_header == FixedHeaderDecode(ByteArrayNew(buf))
    IN  IF ~fixed_header.result.ok THEN fixed_header.result
        ELSE IF ~AssertPacketType(fixed_header.result.value, "Disconnect").ok
        THEN AssertPacketType(fixed_header.result.value, "Disconnect")
        ELSE Ok([type |-> "Disconnect"])

\* UnsubscribeAckPacket::from_net: the packet type of the header is not
\* looked at.
UnsubscribeAckFromNet(buf) ==
    LET fixed_header == BaseFixedHeaderFromNet(buf)
        remaining_len == Index(buf, 1)
        packet_id == BigEndianU16(Slice(buf, 2, 4))
    IN  IF Len(buf) = 0 THEN Err("PacketEmpty")
        ELSE IF ~fixed_header.ok THEN fixed_header
        ELSE IF ~remaining_len.ok THEN remaining_len
        ELSE IF remaining_len.value # 2 THEN Panic("assertion failed: left == right")
        ELSE IF ~packet_id.ok THEN packet_id
        ELSE Ok([packet_id |-> packet_id.value])

\* One topic and QoS of the loop of SubscribePacket::from_net, read at
\* offset: the entry and the offset behind it. to_utf8_string is taken to
\* return its error on a range that ends past the buffer.
SubscribeFromNetTopic(buf, offset) ==
    LET topic_len == BigEndianU16(Slice(buf, offset, offset + 2))
        bytes == IF offset + 2 + topic_len.value > Len(buf) THEN Err("InvalidString")
                 ELSE Ok(SubSeq(buf, offset + 3, offset + 2 + topic_len.value))
        topic == IF bytes.ok THEN to_utf8_string(bytes.value) ELSE bytes
        qos_flag == Index(buf, offset + 2 + topic_len.value)
    IN  IF ~topic_len.ok THEN topic_len
        ELSE IF ~topic.ok THEN topic
        ELSE IF ~validate_sub_topic(topic.value).ok THEN Err("InvalidTopicFilter")
        ELSE IF ~TopicParse(topic.value).ok THEN Err("InvalidTopicFilter")
        ELSE IF ~qos_flag.ok THEN qos_flag
        ELSE IF qos_flag.value % 4 = 3 THEN Err("InvalidQoS")
        ELSE Ok([topic |-> topic.value, qos |-> qos_flag.value % 4,
                 offset |-> offset + 2 + topic_len.value + 1])

\* The loop of SubscribePacket::from_net.
RECURSIVE SubscribeFromNetTopics(_, _, _, _, _)
SubscribeFromNetTopics(buf, offset, remaining_length, declared, topics) ==
    IF remaining_length >= declared THEN Ok(topics)
    ELSE LET entry == SubscribeFromNetTopic(buf, offset)
         IN  IF ~entry.ok THEN entry
             ELSE SubscribeFromNetTopics(
                    buf, entry.value.offset,
                    remaining_length + (entry.value.offset - offset), declared,
                    Append(topics, [topic |-> entry.value.topic, qos |-> entry.value.qos]))

\* SubscribePacket::from_net of hebo/src/codec with *offset = 0.
SubscribeFromNet(buf) ==
    LET fixed_header == FixedHeaderDecode(ByteArrayNew(buf))
        offset == fixed_header.ba.offset
        packet_id == BigEndianU16(Slice(buf, offset, offset + 2))
        topics == SubscribeFromNetTopics(buf, offset + 2, 2,
                     fixed_header.result.value.remaining_length, <<>>)
    IN  IF ~fixed_header.result.ok THEN fixed_header.result
        ELSE IF ~AssertPacketType(fixed_header.result.value, "Subscribe").ok
        THEN AssertPacketType(fixed_header.result.value, "Subscribe")
        ELSE IF ~packet_id.ok THEN packet_id
        ELSE IF ~topics.ok THEN topics
        ELSE IF topics.value = <<>> THEN Err("EmptyTopic")
        ELSE Ok([packet_id |-> packet_id.value, topics |-> topics.value])

\* The longest buffer of bytes drawn freely that is given to from_net.
MaxBufLen == 3

\* The bytes they are drawn from: 0, the remaining length 2, and the first
\* byte of PUBACK, PUBREC, SUBSCRIBE, UNSUBACK and DISCONNECT.
FromNetBytes == {0, 2, 64, 80, 130, 176, 224}

\* The whole packets given to from_net: PUBACK, PUBREC, UNSUBACK, a
\* SUBSCRIBE to "a" at QoS 0, and that SUBSCRIBE without its last byte.
FromNetPackets ==
    { <<64, 2, 0, 1>>, <<80, 2, 0, 1>>, <<176, 2, 0, 1>>,
      <<130, 6, 0, 1, 0, 1, 97, 0>>, <<130, 6, 0, 1, 0, 1, 97>> }

FromNetBuffers ==
    UNION { [1..n -> FromNetBytes] : n \in 0..MaxBufLen } \cup FromNetPackets

\* The decoders and the nibble of their packet type.
FromNetCodecs ==
    { "codec::PublishReceivedPacket", "codec::DisconnectPacket",
      "UnsubscribeAckPacket", "hebo::codec::SubscribePacket" }

FromNetInputs ==
    { <<GivenBytesOf(codec, [buf |-> buf]), Some(Ok(buf))>> :
        codec \in FromNetCodecs, buf \in FromNetBuffers }

publish_received_from_net ==
    /\ Decodes("codec::PublishReceivedPacket")
    /\ decoded' = Some(PublishReceivedFromNet(Bytes))

disconnect_from_net ==
    /\ Decodes("codec::DisconnectPacket")
    /\ decoded' = Some(DisconnectFromNet(Bytes))

unsubscribe_ack_from_net ==
    /\ Decodes("UnsubscribeAckPacket")
    /\ decoded' = Some(UnsubscribeAckFromNet(Bytes))

subscribe_from_net ==
    /\ Decodes("hebo::codec::SubscribePacket")
    /\ decoded' = Some(SubscribeFromNet(Bytes))

\* ------------------------------------------------------------------------
\* The constructor and the setters of PublishPacket.
\* src/v5/publish_packet.rs
\* ------------------------------------------------------------------------

\* PublishPacket::new on a valid topic.
PublishNew(topic, qos, msg) ==
    [dup |-> FALSE, qos |-> qos, retain |-> FALSE,
     topic |-> topic, packet_id |-> 0, msg |-> msg]

\* A setter leaves the packet changed or not, and what was encoded and
\* decoded before is of the packet as it was.
Sets(packet) ==
    /\ packet_in' = packet
    /\ encoded' = None
    /\ decoded' = None
    /\ UNCHANGED not_codec_vars

\* PublishPacket::set_dup: refused at QoS 0, the packet being left as it is.
set_dup(dup) ==
    IF dup /\ packet_in.qos = 0 THEN Sets(packet_in)
    ELSE Sets([packet_in EXCEPT !.dup = dup])

\* PublishPacket::set_qos.
set_qos(qos) ==
    Sets([packet_in EXCEPT !.packet_id = IF qos = 0 THEN 0 ELSE @, !.qos = qos])

\* PublishPacket::set_packet_id.
set_packet_id(packet_id) == Sets([packet_in EXCEPT !.packet_id = packet_id])

\* PublishPacket::set_retain.
set_retain(flag) == Sets([packet_in EXCEPT !.retain = flag])

\* The bytes of one topic entry of a SUBSCRIBE, the filter "a" or "a/#"
\* followed by every Requested-QoS byte, and the entry without that byte.
SubscribeTopicInputs ==
    { << GivenBytesOf("v3::SubscribeTopic", [filter |-> filter, qos_flag |-> Some(qos_flag)]),
         Some(Ok(SubTopicEncode(filter) \o <<qos_flag>>)) >>
      : filter \in { <<"a">>, <<"a", "/", "#">> }, qos_flag \in 0..255 }
    \cup { << GivenBytesOf("v3::SubscribeTopic", [filter |-> <<"a">>, qos_flag |-> None]),
              Some(Ok(SubTopicEncode(<<"a">>))) >> }

v3_subscribe_topic_decode ==
    /\ Decodes("v3::SubscribeTopic")
    /\ decoded' = Some(SubscribeTopicDecode(ByteArrayNew(Bytes)).result)

\* ------------------------------------------------------------------------
\* The listener and the commands of the dispatcher.
\* hebo/src/listener/dispatcher.rs
\* ------------------------------------------------------------------------

\* The commands the dispatcher sends to a listener.
DispatcherCmds ==
    { [type |-> "CheckCachedSessionResp", session_id |-> id, cached_session |-> c] :
        id \in SessionIds,
        c \in { None, Some([subscriptions |-> <<>>, inflight |-> {},
                            pub_recv_packets |-> {2}]) } }
    \cup { [type |-> t, session_id |-> id, packet |-> [type |-> "Publish", topic |-> <<"a">>, qos |-> 0]] :
             t \in {"Publish", "PublishV5"}, id \in SessionIds }
    \cup { [type |-> t, session_id |-> id, packet |-> [type |-> "SubscribeAck", packet_id |-> 1]] :
             t \in {"SubscribeAck", "SubscribeAckV5"}, id \in SessionIds }

\* A listener with the sessions registered, their channels empty.
ListenerInit(registered) ==
    /\ session_channels = [id \in registered |-> [queue |-> <<>>, closed |-> FALSE]]
    /\ dispatcher_cmd = [type |-> "None"]
    /\ dispatcher_result = Ok("unit")

\* session_sender.send(cmd).await.map_err(Into::into) on a channel with room:
\* the command is enqueued, or the error of a channel whose receiver is gone.
session_sender_send(channels, session_id, c) ==
    IF channels[session_id].closed
    THEN [channels |-> channels, result |-> Err("SendError")]
    ELSE [channels |-> [channels EXCEPT ![session_id].queue = Append(@, c)],
          result |-> Ok("unit")]

\* A handler that sends the PUBLISH to every registered session.
on_dispatcher_publish_to_all(channels, session_id, packet) ==
    IF session_id \in DOMAIN channels
    THEN [channels |-> [id \in DOMAIN channels |->
                          [channels[id] EXCEPT !.queue =
                              Append(@, [type |-> "Publish", packet |-> packet])]],
          result |-> Ok("unit")]
    ELSE [channels |-> channels, result |-> Err("SessionError")]

\* Listener::on_dispatcher_publish.
on_dispatcher_publish(channels, session_id, packet) ==
    IF session_id \in DOMAIN channels
    THEN session_sender_send(channels, session_id,
                             [type |-> "Publish", packet |-> packet])
    ELSE [channels |-> channels, result |-> Err("SessionError")]

\* Listener::session_send_publish_ack, called with the SUBACK.
session_send_publish_ack(channels, session_id, packet) ==
    IF session_id \in DOMAIN channels
    THEN session_sender_send(channels, session_id,
                             [type |-> "SubscribeAck", packet |-> packet])
    ELSE [channels |-> channels, result |-> Err("SessionError")]

\* Listener::handle_dispatcher_cmd.
handle_dispatcher_cmd(channels, c) ==
    CASE c.type = "CheckCachedSessionResp" ->
            LET r == on_dispatcher_check_cached_session(DOMAIN channels, c.session_id,
                                                        c.cached_session)
            IN  IF r.ok THEN session_sender_send(channels, c.session_id, r.value)
                ELSE [channels |-> channels, result |-> r]
      [] c.type = "Publish" -> on_dispatcher_publish(channels, c.session_id, c.packet)
      [] c.type = "PublishV5" ->
            [channels |-> channels, result |-> Panic("not yet implemented")]
      [] c.type = "SubscribeAck" ->
            session_send_publish_ack(channels, c.session_id, c.packet)
      [] c.type = "SubscribeAckV5" ->
            [channels |-> channels, result |-> Panic("not yet implemented")]

\* The command is for a session whose channel is full: send awaits.
SendAwaits(channels, c) ==
    /\ c.type \in {"CheckCachedSessionResp", "Publish", "SubscribeAck"}
    /\ c.session_id \in DOMAIN channels
    /\ ~channels[c.session_id].closed
    /\ Len(channels[c.session_id].queue) >= MaxSessionQueue

\* The listener task takes a command of the dispatcher and handles it; a
\* listener that panicked takes no more.
listener_handle_dispatcher_cmd ==
    \E c \in DispatcherCmds :
        LET h == handle_dispatcher_cmd(session_channels, c)
        IN  /\ ~Panicked(dispatcher_result)
            /\ ~SendAwaits(session_channels, c)
            /\ session_channels' = h.channels
            /\ dispatcher_cmd' = c
            /\ dispatcher_result' = h.result
            /\ UNCHANGED not_listener_vars

\* A session takes the next command of its channel.
session_recv ==
    \E id \in DOMAIN session_channels :
        /\ session_channels[id].queue # <<>>
        /\ session_channels' = [session_channels EXCEPT ![id].queue = Tail(@)]
        /\ UNCHANGED <<dispatcher_cmd, dispatcher_result>>
        /\ UNCHANGED not_listener_vars

\* The task of a session ends and drops the receiver of its channel.
session_task_ends ==
    \E id \in DOMAIN session_channels :
        /\ ~session_channels[id].closed
        /\ session_channels' =
              [session_channels EXCEPT ![id] = [queue |-> <<>>, closed |-> TRUE]]
        /\ UNCHANGED <<dispatcher_cmd, dispatcher_result>>
        /\ UNCHANGED not_listener_vars

\* ------------------------------------------------------------------------
\* codec/src/byte_array.rs: a caller reads from one ByteArray.
\* ------------------------------------------------------------------------

\* The bytes of the slices: a character, a byte that is no character of the
\* model, and zero.
ReaderBytes == {0, 97, 200}

\* The slices given to ByteArray::new.
ReaderBuffers == UNION { [1..n -> ReaderBytes] : n \in 0..MaxBufLen }

\* The lengths a caller asks read_string and read_bytes for.
ReaderLens == 0..MaxBufLen

MaxOffset == 6

ReaderInit(data) ==
    /\ byte_array = ByteArrayNew(data)
    /\ read_result = [call |-> "new", result |-> Ok("unit")]

\* One read of the caller; the run is bounded in how far the cursor moves.
Reads(call, r) ==
    /\ r.ba.offset <= MaxOffset
    /\ byte_array' = r.ba
    /\ read_result' = [call |-> call, result |-> r.result]
    /\ UNCHANGED not_reader_vars

call_read_byte == Reads("read_byte", read_byte(byte_array))

call_read_u16 == Reads("read_u16", read_u16(byte_array))

call_read_u32 == Reads("read_u32", read_u32(byte_array))

call_read_string == \E len \in ReaderLens : Reads("read_string", read_string(byte_array, len))

call_read_bytes == \E len \in ReaderLens : Reads("read_bytes", read_bytes(byte_array, len))

call_remaining_bytes ==
    /\ read_result' = [call |-> "remaining_bytes", result |-> remaining_bytes(byte_array)]
    /\ UNCHANGED byte_array
    /\ UNCHANGED not_reader_vars

call_reset_offset ==
    /\ byte_array' = reset_offset(byte_array)
    /\ read_result' = [call |-> "reset_offset", result |-> Ok("unit")]
    /\ UNCHANGED not_reader_vars

\* ------------------------------------------------------------------------
\* Specifications.
\* ------------------------------------------------------------------------
\* The components outside the routing table, the session and the Auth app.
\* The packet PublishPacket::default() returns, with a topic.
DefaultPublish ==
    [dup |-> FALSE, qos |-> 0, retain |-> FALSE, topic |-> <<"a">>,
     packet_id |-> 0, msg |-> <<>>]

OtherInit ==
    /\ QueueInit /\ LoopInit /\ ProcessInit /\ StartupInit(1)
    /\ TopicInit(<<>>, <<>>) /\ CodecInit(DefaultPublish)
    /\ ListenerInit({}) /\ ReaderInit(<<>>)

Init == ServerInit /\ SessionInit /\ AuthNew(FALSE, None) /\ OtherInit

\* ServerContext::run_loop and the connections it spawned.
QueueNext ==
    \/ run_loop_new_connection
    \/ run_loop_route_cmd
    \/ on_publish_resume
    \/ connection_send
    \/ connection_recv
    \/ connection_close

QueueSpec == Init /\ [][QueueNext]_vars

\* on_publish over the tables of the server, with connections whose receiver
\* is closed.
DeliverySpecInit ==
    /\ pipelines \in DeliveryTables
    /\ current_connection_id = Len(pipelines)
    /\ server_tx = NoneSent
    /\ cmd = [type |-> "None"]
    /\ disconnected = {}
    /\ SessionInit /\ AuthNew(FALSE, None) /\ OtherInit

DeliveryNext ==
    \/ route_cmd_publish
    \/ receiver_dropped

DeliverySpec == DeliverySpecInit /\ [][DeliveryNext]_vars

\* The connections with the sends that wait for room in connection_rx.
BackpressureNext ==
    \/ run_loop_new_connection
    \/ run_loop_route_cmd
    \/ on_publish_resume
    \/ connection_send
    \/ connection_send_suspend
    \/ connection_send_resume
    \/ connection_recv
    \/ connection_close

BackpressureSpec == Init /\ [][BackpressureNext]_vars

\* The routing table of ServerContext.
Next ==
    \/ new_connection
    \/ route_cmd_publish
    \/ route_cmd_subscribe
    \/ route_cmd_unsubscribe
    \/ route_cmd_disconnect

Spec == Init /\ [][Next]_vars

\* One session and the listener that hosts it.
SessionNext ==
    \/ handle_dispatcher_cmd_check_cached_session
    \/ listener_sends
    \/ session_handle_listener_packet

SessionSpec == Init /\ [][SessionNext]_vars

\* The Auth task.
AuthNext == handle_listener_cmd

\* Every security configuration: allow_anonymous on or off, with or without a file.
AuthInit ==
    /\ ServerInit
    /\ SessionInit
    /\ \E anonymous \in BOOLEAN, file \in PasswordFiles : AuthNew(anonymous, file)
    /\ OtherInit

\* The event loops of the Auth and Bridge apps and the tasks that hold the
\* send sides of their inbound channels, for every security configuration.
LoopNext ==
    \/ app_sender_sends
    \/ app_sender_closes
    \/ auth_run_loop
    \/ bridge_run_loop

LoopSpec == AuthInit /\ [][LoopNext]_vars

AuthSpec == AuthInit /\ [][AuthNext]_vars

\* The process from init_modules to its exit.
ProcessNext ==
    \/ listener_accepts
    \/ session_forwards
    \/ session_ends
    \/ dispatcher_handles
    \/ run_inner_loop_continue
    \/ run_inner_loop_break

ProcessSpec == Init /\ [][ProcessNext]_vars

\* run_loop of hebo/src/server.rs, for every number of configured listeners.
StartupSpecInit ==
    /\ ServerInit /\ SessionInit /\ AuthNew(FALSE, None)
    /\ ListenerInit({}) /\ ReaderInit(<<>>)
    /\ QueueInit /\ LoopInit /\ ProcessInit /\ TopicInit(<<>>, <<>>)
    /\ CodecInit(DefaultPublish)
    /\ \E n \in ConfiguredListeners : StartupInit(n)

StartupNext ==
    \/ run_loop_spawn_listener
    \/ run_loop_handle_await
    \/ run_loop_storage_handle_await
    \/ listener_sends_to_storage
    \/ listener_terminates
    \/ storage_run_loop

StartupSpec == StartupSpecInit /\ [][StartupNext]_vars

\* The functions of src/topic.rs on every filter and name of the input sets.
TopicSpecInit ==
    /\ ServerInit /\ SessionInit /\ AuthNew(FALSE, None)
    /\ ListenerInit({}) /\ ReaderInit(<<>>)
    /\ QueueInit /\ LoopInit /\ ProcessInit /\ StartupInit(1)
    /\ CodecInit(DefaultPublish)
    /\ \E filter \in FilterStrings, name \in NameStrings : TopicInit(filter, name)

TopicNext ==
    \/ call_is_match
    \/ call_validate_sub_topic
    \/ call_validate_pub_topic

TopicSpec == TopicSpecInit /\ [][TopicNext]_vars

\* encode and decode of the codec on every packet of the input set.
CodecSpecInit ==
    /\ ServerInit /\ SessionInit /\ AuthNew(FALSE, None)
    /\ ListenerInit({}) /\ ReaderInit(<<>>)
    /\ QueueInit /\ LoopInit /\ ProcessInit /\ StartupInit(1)
    /\ TopicInit(<<>>, <<>>)
    /\ \E packet \in PublishInputs : CodecInit(packet)

CodecNext ==
    \/ call_encode
    \/ call_decode

CodecSpec == CodecSpecInit /\ [][CodecNext]_vars

\* The encoders and decoders of the packets, on the packets and the bytes of
\* the input sets.
PacketInputs ==
    FixedHeaderInputs \cup SubscribeInputs \cup PublishBytesInputs \cup ConnectInputs
    \cup FromNetInputs \cup SubscribeTopicInputs

PacketSpecInit ==
    /\ ServerInit /\ SessionInit /\ AuthNew(FALSE, None)
    /\ ListenerInit({}) /\ ReaderInit(<<>>)
    /\ QueueInit /\ LoopInit /\ ProcessInit /\ StartupInit(1)
    /\ TopicInit(<<>>, <<>>)
    /\ \E input \in PacketInputs : PacketInit(input[1], input[2])

PacketNext ==
    \/ fixed_header_to_net
    \/ fixed_header_from_net
    \/ v3_subscribe_encode
    \/ v3_subscribe_decode
    \/ v5_publish_decode
    \/ v3_connect_encode
    \/ v3_connect_decode
    \/ v5_connect_encode
    \/ v5_connect_decode
    \/ publish_received_from_net
    \/ disconnect_from_net
    \/ unsubscribe_ack_from_net
    \/ subscribe_from_net
    \/ v3_subscribe_topic_decode

PacketSpec == PacketSpecInit /\ [][PacketNext]_vars

SetterSpecInit ==
    /\ ServerInit /\ SessionInit /\ AuthNew(FALSE, None)
    /\ ListenerInit({}) /\ ReaderInit(<<>>)
    /\ QueueInit /\ LoopInit /\ ProcessInit /\ StartupInit(1)
    /\ TopicInit(<<>>, <<>>)
    /\ \E topic \in { <<"a">>, <<"a", "/", "a">> }, qos \in QoS :
          CodecInit(PublishNew(topic, qos, <<7>>))

SetterNext ==
    \/ \E dup \in BOOLEAN : set_dup(dup)
    \/ \E qos \in QoS : set_qos(qos)
    \/ \E packet_id \in {0, 1, 258} : set_packet_id(packet_id)
    \/ \E flag \in BOOLEAN : set_retain(flag)
    \/ call_encode
    \/ call_decode

SetterSpec == SetterSpecInit /\ [][SetterNext]_vars

ListenerSpecInit ==
    /\ ServerInit /\ SessionInit /\ AuthNew(FALSE, None)
    /\ QueueInit /\ LoopInit /\ ProcessInit /\ StartupInit(1)
    /\ TopicInit(<<>>, <<>>) /\ CodecInit(DefaultPublish)
    /\ \E registered \in SUBSET SessionIds : ListenerInit(registered)
    /\ ReaderInit(<<>>)

ListenerNext ==
    \/ listener_handle_dispatcher_cmd
    \/ session_recv
    \/ session_task_ends

ListenerSpec == ListenerSpecInit /\ [][ListenerNext]_vars

\* A caller that reads from a ByteArray over every slice.
ReaderSpecInit ==
    /\ ServerInit /\ SessionInit /\ AuthNew(FALSE, None)
    /\ QueueInit /\ LoopInit /\ ProcessInit /\ StartupInit(1)
    /\ TopicInit(<<>>, <<>>) /\ CodecInit(DefaultPublish)
    /\ ListenerInit({})
    /\ \E data \in ReaderBuffers : ReaderInit(data)

ReaderNext ==
    \/ call_read_byte
    \/ call_read_u16
    \/ call_read_u32
    \/ call_read_string
    \/ call_read_bytes
    \/ call_remaining_bytes
    \/ call_reset_offset

ReaderSpec == ReaderSpecInit /\ [][ReaderNext]_vars

\* ------------------------------------------------------------------------
\* Properties of the routing table (Spec).
\* ------------------------------------------------------------------------

HasPipeline(ps, c) == \E i \in 1..Len(ps) : ps[i].connection_id = c

TopicsOf(ps, c) == ps[position(ps, c)].topics

\* C1: a PUBLISH with QoS q_p routed to a connection because a subscription
\* granted at QoS q_s matches carries QoS min(q_p, q_s): every command the
\* last PUBLISH put on a connection's channel has the QoS min(q_p, q_s) of one
\* of that connection's matching subscriptions.
C1_DeliveredQoSIsMin ==
    cmd.type = "Publish" =>
        \A c \in ConnectionIds : \A k \in 1..Len(server_tx[c]) :
            /\ HasPipeline(pipelines, c)
            /\ \E j \in 1..Len(TopicsOf(pipelines, c)) :
                 LET topic == TopicsOf(pipelines, c)[j]
                 IN  /\ is_match(topic.pattern, cmd.packet.topic)
                     /\ server_tx[c][k].qos = Min(cmd.packet.qos, topic.qos)

\* C2: after Unsubscribe(c, filters) for a connection c that has a pipeline,
\* at whatever position, c holds no subscription whose filter is one of the
\* listed filters.
C2_UnsubscribeRemovesListedFilters ==
    (cmd.type = "Unsubscribe" /\ HasPipeline(pipelines, cmd.connection_id)) =>
        \A j \in 1..Len(TopicsOf(pipelines, cmd.connection_id)) :
            \A i \in 1..Len(cmd.packet) :
                TopicsOf(pipelines, cmd.connection_id)[j].pattern.topic # cmd.packet[i]

\* C3: routing Disconnect(c) removes the pipeline of c and leaves the
\* pipelines and subscriptions of every other connection as they were; from
\* then on c has no pipeline and no PUBLISH is sent to c.
C3_DisconnectedIsUnrouted ==
    [][ /\ cmd'.type = "Disconnect" =>
              pipelines' = SelectSeq(pipelines,
                  LAMBDA p : p.connection_id # cmd'.connection_id)
        /\ \A c \in disconnected' :
              /\ ~HasPipeline(pipelines', c)
              /\ server_tx'[c] = <<>> ]_vars

\* A PUBLISH reached a connected subscriber after another connection, which
\* had been accepted before it, was disconnected.
C3_Witness ==
    /\ cmd.type = "Publish"
    /\ \E c \in disconnected, d \in ConnectionIds :
          /\ c < d
          /\ HasPipeline(pipelines, d)
          /\ server_tx[d] # <<>>

\* C4: a connection holds at most one subscription per topic filter: a
\* SUBSCRIBE to a filter it already holds replaces the old subscription.
C4_OneSubscriptionPerFilter ==
    \A i \in 1..Len(pipelines) :
        \A j, k \in 1..Len(pipelines[i].topics) :
            j # k => pipelines[i].topics[j].pattern.topic
                        # pipelines[i].topics[k].pattern.topic

\* C15: the ids handed to accepted connections are strictly increasing in
\* accept order, so no two pipelines share an id, and an id is never given to
\* a new connection after its previous holder disconnected.
C15_ConnectionIdsAreFresh ==
    /\ [](\A i, j \in 1..Len(pipelines) :
             i < j => pipelines[i].connection_id < pipelines[j].connection_id)
    /\ [][ cmd'.type = "Accept" =>
              /\ cmd'.connection_id > current_connection_id
              /\ cmd'.connection_id \notin disconnected
              /\ \A i \in 1..Len(pipelines) :
                    pipelines[i].connection_id < cmd'.connection_id ]_vars

\* A connection is accepted after an earlier one has disconnected.
C15_Witness ==
    /\ cmd.type = "Accept"
    /\ disconnected # {}
    /\ HasPipeline(pipelines, cmd.connection_id)

\* ------------------------------------------------------------------------
\* Properties of run_loop and its channels (QueueSpec).
\* ------------------------------------------------------------------------

\* C11: if the server processes PUBLISH p1 before PUBLISH p2 and both are
\* enqueued to connection c, p1 is enqueued before p2 and c receives them in
\* that order: the PUBLISHes waiting for c are in the order the server
\* processed them, and all of them were processed after the one c received last.
C11_PublishOrderIsPreserved ==
    \A c \in QueueConnections :
        /\ \A i, j \in 1..Len(server_rx[c]) :
              i < j => server_rx[c][i].seq < server_rx[c][j].seq
        /\ \A i \in 1..Len(server_rx[c]) : received[c] < server_rx[c][i].seq

\* Two PUBLISHes wait for a connection while the other connection has a
\* command waiting for the server.
C11_Witness ==
    \E c \in QueueConnections :
        /\ Len(server_rx[c]) = 2
        /\ \E i \in 1..Len(connection_rx) :
              /\ connection_rx[i].type # "Publish"
              /\ connection_rx[i].connection_id # c

\* ------------------------------------------------------------------------
\* Properties of on_publish (DeliverySpec).
\* ------------------------------------------------------------------------

\* The pipeline of connection c holds a subscription that matches topic_str.
Subscribed(c, topic_str) ==
    \E i \in 1..Len(pipelines) :
        /\ pipelines[i].connection_id = c
        /\ \E j \in 1..Len(pipelines[i].topics) :
              is_match(pipelines[i].topics[j].pattern, topic_str)

\* C38: for each PUBLISH the server processes, every connection receives at
\* most one copy: exactly one if at least one of its subscriptions matches
\* the topic, none otherwise, even when several of its subscriptions match;
\* a failed send to one connection (its receiver is closed) does not stop
\* the delivery to the remaining matching connections.
C38_OneCopyPerMatchingConnection ==
    cmd.type = "Publish" =>
        \A c \in ConnectionIds :
            server_tx[c] = IF Subscribed(c, cmd.packet.topic) /\ c \notin dropped
                           THEN <<cmd.packet>>
                           ELSE <<>>

\* A PUBLISH was processed while the first connection, whose subscription
\* matches, had closed its receiver, and a later connection holds two
\* subscriptions that both match: that one has one copy.
C38_Witness ==
    /\ cmd.type = "Publish"
    /\ \E c, d \in ConnectionIds :
          /\ c < d
          /\ c \in dropped /\ Subscribed(c, cmd.packet.topic)
          /\ server_tx[c] = <<>>
          /\ position(pipelines, d) # 0
          /\ Len(pipelines[position(pipelines, d)].topics) = 2
          /\ \A j \in 1..2 :
                is_match(pipelines[position(pipelines, d)].topics[j].pattern,
                         cmd.packet.topic)
          /\ server_tx[d] = <<cmd.packet>>

\* ------------------------------------------------------------------------
\* Properties of the queues under backpressure (BackpressureSpec).
\* ------------------------------------------------------------------------

\* The server is suspended sending a PUBLISH into the full queue of a
\* connection that is itself suspended sending a command into the full
\* queue of the server.
SendCycle ==
    /\ sending.some
    /\ LET c == pipelines[sending.value.index].connection_id
       IN  /\ c \notin dropped
           /\ Len(server_rx[c]) >= MaxServerRx
           /\ awaiting[c].some
    /\ Len(connection_rx) >= MaxConnectionRx

\* C37: the bounded queues between the server and its connections never
\* deadlock: in no reachable state is the server blocked sending a PUBLISH
\* into a connection's full queue while that connection is blocked sending a
\* command into the server's full queue.
C37_NoSendCycle == ~SendCycle

\* ------------------------------------------------------------------------
\* Properties of the event loops of the apps (LoopSpec).
\* ------------------------------------------------------------------------

\* C12: when every send side of a task's inbound queue has been closed, the
\* receiving task (AuthApp::run_loop, BridgeApp::run_loop) observes the
\* closure, drains and stops cleanly: it never panics.
C12_ClosedQueueStopsTheTask ==
    \A app \in Apps : task[app] # "panicked"

\* ------------------------------------------------------------------------
\* Properties of the process (ProcessSpec).
\* ------------------------------------------------------------------------

\* C13: on SIGTERM, SIGQUIT or SIGINT the listeners stop accepting, the
\* existing sessions are sent DISCONNECT and drained, then the dispatcher
\* drains, and only then does the process exit: when the process has exited,
\* no listener accepts, no session is live and no command waits for the
\* dispatcher.
C13_GracefulShutdownOrder ==
    process = "exited" =>
        /\ ~accepting
        /\ live_sessions = {}
        /\ dispatcher_rx = <<>>

\* ------------------------------------------------------------------------
\* Properties of the start of the modules (StartupSpec).
\* ------------------------------------------------------------------------

\* C14: after run_loop starts with n >= 1 configured listeners, starting
\* listener k+1, or the storage task, never waits for listener k to
\* terminate: run_loop is never suspended on a running listener while another
\* listener or the storage task is still to be started.
C14_ModulesStartTogether ==
    ~ /\ run_loop_pc.at = "await"
      /\ listener_task[run_loop_pc.k] = "running"
      /\ \/ storage_task = "unstarted"
         \/ \E k \in DOMAIN listener_task : listener_task[k] = "unstarted"

\* ------------------------------------------------------------------------
\* Properties of the functions of src/topic.rs (TopicSpec).
\* ------------------------------------------------------------------------

\* A legal topic filter: non-empty; every '#' is the final character and is
\* preceded by '/' or is the whole filter; every '+' is preceded by the start
\* of the string or '/' and followed by the end of the string or '/'.
LegalFilter(f) ==
    /\ f # <<>>
    /\ \A i \in 1..Len(f) :
          /\ f[i] = "#" => (i = Len(f) /\ (i = 1 \/ f[i - 1] = "/"))
          /\ f[i] = "+" => /\ (i = 1 \/ f[i - 1] = "/")
                           /\ (i = Len(f) \/ f[i + 1] = "/")

\* A legal topic name: non-empty and without wildcard characters.
LegalName(t) == t # <<>> /\ \A i \in 1..Len(t) : t[i] \notin {"+", "#"}

\* Level by level: every filter level equals the topic level or is '+', or a
\* '#' filter level is reached, which consumes the rest.
RECURSIVE LevelsMatch(_, _)
LevelsMatch(f, t) ==
    IF f = <<>> THEN t = <<>>
    ELSE IF Head(f) = <<"#">> THEN TRUE
    ELSE IF t = <<>> THEN FALSE
    ELSE IF Head(f) = <<"+">> \/ Head(f) = Head(t) THEN LevelsMatch(Tail(f), Tail(t))
    ELSE FALSE

NoEmptyLevel(str) == \A i \in 1..Len(Split(str)) : Split(str)[i] # <<>>

\* is_match was called with a legal filter and a legal name.
MatchCalled ==
    /\ topic_out.op = "is_match"
    /\ LegalFilter(topic_filter)
    /\ LegalName(topic_name)

\* C16: a topic filter whose first level is '+' or '#' never matches a topic
\* whose first character is '$', while the filter '$/#', which names the '$'
\* level, does match the topic '$/a'.
C16_WildcardSkipsInternalTopics ==
    MatchCalled =>
        /\ (topic_name[1] = "$" /\ Split(topic_filter)[1] \in { <<"+">>, <<"#">> })
              => (topic_out.result.ok /\ ~topic_out.result.value)
        /\ (topic_filter = <<"$", "/", "#">> /\ topic_name = <<"$", "/", "a">>)
              => (topic_out.result.ok /\ topic_out.result.value)

\* C17: is_match(filter, topic) is true exactly when the levels match one by
\* one or a '#' level consumes the rest; a filter without '#' matches only
\* topics with as many levels. Stated for names that do not start with '$'
\* and strings without empty levels.
C17_MatchIsLevelByLevel ==
    ( /\ MatchCalled
      /\ topic_name[1] # "$"
      /\ NoEmptyLevel(topic_filter)
      /\ NoEmptyLevel(topic_name) ) =>
        /\ topic_out.result.ok
        /\ topic_out.result.value
              <=> LevelsMatch(Split(topic_filter), Split(topic_name))

\* C18: for every legal topic name T without wildcards that does not start
\* with '$', with or without an empty level, the filter T matches the topic T.
C18_MatchIsReflexive ==
    ( /\ MatchCalled
      /\ topic_filter = topic_name
      /\ topic_name[1] # "$" ) =>
        (topic_out.result.ok /\ topic_out.result.value)

\* C19: validate_sub_topic accepts a string exactly when it is a legal topic
\* filter.
C19_SubTopicIsValidatedExactly ==
    topic_out.op = "validate_sub_topic" =>
        (topic_out.result.ok <=> LegalFilter(topic_filter))

\* ------------------------------------------------------------------------
\* Properties of the codec (CodecSpec).
\* ------------------------------------------------------------------------

\* A legal PUBLISH packet: a valid topic name, a non-zero packet id when
\* QoS > 0 (none at QoS 0), DUP = 0 when QoS = 0.
LegalPublish(packet) ==
    /\ LegalName(packet.topic)
    /\ packet.qos > 0 => packet.packet_id # 0
    /\ packet.qos = 0 => (packet.packet_id = 0 /\ ~packet.dup)

\* C20: for every legal PUBLISH packet P, QoS 1 and QoS 2 packets with DUP = 1
\* included, decode(encode(P)) succeeds and returns a packet equal to P.
C20_PublishRoundTrips ==
    (decoded.some /\ LegalPublish(packet_in)) =>
        /\ decoded.value.ok
        /\ decoded.value.value = packet_in

\* ------------------------------------------------------------------------
\* Properties of the setters of PublishPacket (SetterSpec).
\* ------------------------------------------------------------------------

\* C31: after any sequence of set_qos and set_dup calls, set_dup(true) at
\* QoS 1 followed by set_qos(AtMostOnce) included, the packet never has
\* dup = true together with QoS 0, so the decoder never rejects the bytes
\* of a packet of the setters for a DUP flag at QoS 0.
C31_NoDupAtQosZero ==
    /\ ~(packet_in.dup /\ packet_in.qos = 0)
    /\ (decoded.some /\ packet_in.qos = 0) => decoded.value.ok

\* ------------------------------------------------------------------------
\* Properties of the packet codecs (PacketSpec).
\* ------------------------------------------------------------------------

\* The flags nibble a packet type requires: 0b0010 for PUBREL (6), SUBSCRIBE
\* (8) and UNSUBSCRIBE (10), the DUP, QoS and RETAIN bits with QoS below 3
\* for PUBLISH (3), 0b0000 for every other type.
RequiredFlags(packet_type, nibble) ==
    CASE packet_type \in {6, 8, 10} -> nibble = 2
      [] packet_type = 3 -> (nibble \div 2) % 4 # 3
      [] OTHER -> nibble = 0

\* C23: the fixed-header byte of an encoded PUBLISH has packet-type nibble 3
\* for every combination of DUP, QoS and RETAIN, with DUP in bit 3, QoS in
\* bits 2-1 and RETAIN in bit 0.
C23_PublishFlagsStayInTheirNibble ==
    ( /\ packet_in.codec = "FixedHeader"
      /\ packet_in.given = "packet"
      /\ packet_in.value.packet_type = 3
      /\ packet_in.value.packet_flags.kind = "Publish"
      /\ encoded.some ) =>
        /\ encoded.value.ok
        /\ Bytes[1] \div 16 = 3
        /\ Bytes[1] % 16 =
              (IF packet_in.value.packet_flags.dup THEN 8 ELSE 0)
              + packet_in.value.packet_flags.qos * 2
              + (IF packet_in.value.packet_flags.retain THEN 1 ELSE 0)

\* C24: fixed-header decoding accepts a header exactly when its flags nibble
\* is the one its packet type requires, and every header the fixed-header
\* encoder produces is accepted and decodes to the same header.
C24_FlagsNibbleIsChecked ==
    ( /\ packet_in.codec = "FixedHeader"
      /\ decoded.some
      /\ Len(Bytes) > 0 ) =>
        /\ decoded.value.ok <=> RequiredFlags(Bytes[1] \div 16, Bytes[1] % 16)
        /\ packet_in.given = "packet" =>
              (decoded.value.ok /\ decoded.value.value = packet_in.value)

\* The sum over the entries of 2 + the length of the filter + 1.
RECURSIVE EntriesLength(_)
EntriesLength(topics) ==
    IF topics = <<>> THEN 0
    ELSE 2 + Len(Head(topics).topic) + 1 + EntriesLength(Tail(topics))

\* C22: for every SubscribePacket with a non-zero packet id and a non-empty
\* list of valid entries, encode returns the number of bytes it appended, the
\* remaining length it writes is 2 plus the sum over the entries of
\* (2 + filter length + 1), and decode of the bytes returns the same packet id
\* and the same entries in the same order.
C22_SubscribeRoundTrips ==
    ( /\ packet_in.codec = "v3::SubscribePacket"
      /\ packet_in.given = "packet"
      /\ encoded.some ) =>
        /\ encoded.value.ok
        /\ encoded.value.returned = Len(Bytes)
        /\ Bytes[2] = 2 + EntriesLength(packet_in.value.topics)
        /\ decoded.some =>
              /\ decoded.value.ok
              /\ decoded.value.value.packet_id = packet_in.value.packet_id
              /\ decoded.value.value.topics = packet_in.value.topics

\* A packet of two entries was appended to a buffer that held a byte, and
\* the bytes appended were decoded.
C22_Witness ==
    /\ packet_in.codec = "v3::SubscribePacket"
    /\ packet_in.given = "packet"
    /\ Len(packet_in.value.topics) = 2
    /\ packet_in.value.packet_id = 258
    /\ decoded.some
    /\ decoded.value.ok
    /\ encoded.value.old_len = 1

\* C25: SubscribePacket::decode succeeds only if the packet id and the entries
\* it reads occupy exactly the remaining length declared in the fixed header.
C25_SubscribeLengthIsExact ==
    ( /\ packet_in.codec = "v3::SubscribePacket"
      /\ packet_in.given = "bytes"
      /\ decoded.some
      /\ decoded.value.ok ) =>
        2 + EntriesLength(decoded.value.value.topics) = packet_in.value.declared

\* The decoder returned the error named.
DecodeError(error) ==
    /\ decoded.some
    /\ ~decoded.value.ok
    /\ decoded.value.error = error

\* C26: SubscribePacket::decode on packet id 0, and PublishPacket::decode on
\* packet id 0 with QoS 1 or 2, return InvalidPacketId; a QoS 0 PUBLISH is
\* never rejected for its packet id.
C26_ZeroPacketIdIsRejected ==
    /\ ( /\ packet_in.codec = "v3::SubscribePacket"
         /\ packet_in.given = "bytes"
         /\ packet_in.value.packet.packet_id = 0
         /\ decoded.some ) => DecodeError("InvalidPacketId")
    /\ ( /\ packet_in.codec = "v5::PublishPacket"
         /\ decoded.some ) =>
            /\ (packet_in.value.qos > 0 /\ packet_in.value.packet_id = 0)
                  => DecodeError("InvalidPacketId")
            /\ packet_in.value.qos = 0 => ~DecodeError("InvalidPacketId")

\* A legal CONNECT packet: the flags agree with each other and with the
\* fields, and the properties are those of the packet type.
LegalConnect(p) ==
    /\ ~p.connect_flags.will => (p.connect_flags.will_qos = 0 /\ ~p.connect_flags.will_retain)
    /\ p.connect_flags.password => p.connect_flags.username
    /\ p.connect_flags.will <=> p.will_topic.some
    /\ ~p.connect_flags.will => p.will_properties = <<>>
    /\ p.client_id = <<>> => p.connect_flags.clean_session

\* C21: decode(encode(P)) = P for every legal v5 CONNECT packet P, with or
\* without properties and will: both place the properties after the keep
\* alive and the will properties before the will topic.
C21_ConnectV5RoundTrips ==
    ( /\ packet_in.codec = "v5::ConnectPacket"
      /\ packet_in.given = "packet"
      /\ LegalConnect(packet_in.value)
      /\ decoded.some ) =>
        /\ decoded.value.ok
        /\ decoded.value.value = packet_in.value

\* The connect flags of a byte that the claim says are invalid.
BadConnectFlags(b) ==
    \/ (b \div 4) % 2 = 0 /\ ((b \div 8) % 4 # 0 \/ (b \div 32) % 2 = 1)
    \/ (b \div 128) % 2 = 0 /\ (b \div 64) % 2 = 1

C28_EmptyClientIdNeedsCleanSession ==
    ( /\ packet_in.codec = "v3::ConnectPacket"
      /\ packet_in.given = "packet"
      /\ ~InvalidConnectFlags(packet_in.value.connect_flags)
      /\ packet_in.value.client_id = <<>>
      /\ decoded.some ) =>
        IF packet_in.value.connect_flags.clean_session
        THEN decoded.value.ok /\ decoded.value.value.client_id = <<>>
        ELSE DecodeError("InvalidClientId")

\* A packet with an empty client id, clean session and a will was decoded.
C28_Witness ==
    /\ packet_in.codec = "v3::ConnectPacket"
    /\ packet_in.given = "packet"
    /\ packet_in.value.client_id = <<>>
    /\ packet_in.value.connect_flags.clean_session
    /\ packet_in.value.connect_flags.will
    /\ decoded.some
    /\ decoded.value.ok

\* C29: encode returns Ok or Err and never panics, for every ConnectPacket
\* the constructor and the setters build.
C29_ConnectEncodeIsTotal ==
    ( /\ packet_in.codec \in {"v3::ConnectPacket", "v5::ConnectPacket"}
      /\ packet_in.given = "packet"
      /\ encoded.some ) => ~Panicked(encoded.value)

\* The nibble of the packet type a from_net decoder is for.
TypeNibble(codec) ==
    CASE codec = "codec::PublishReceivedPacket" -> 5
      [] codec = "codec::DisconnectPacket" -> 14
      [] codec = "UnsubscribeAckPacket" -> 11
      [] codec = "hebo::codec::SubscribePacket" -> 8

\* The bytes of the shortest packet of a from_net decoder.
ShortestPacket(codec) ==
    CASE codec = "codec::PublishReceivedPacket" -> 4
      [] codec = "codec::DisconnectPacket" -> 2
      [] codec = "UnsubscribeAckPacket" -> 4
      [] codec = "hebo::codec::SubscribePacket" -> 7

\* C30: the PUBREC, DISCONNECT, UNSUBACK and SUBSCRIBE decoders return Err,
\* and never panic or index past the end of the buffer, on every byte
\* sequence whose fixed header names another packet type or that is shorter
\* than the fields the packet requires; they panic on no input at all.
C30_MalformedInputIsAnError ==
    ( /\ packet_in.codec \in FromNetCodecs
      /\ decoded.some ) =>
        /\ ~Panicked(decoded.value)
        /\ ( \/ Len(packet_in.value.buf) < ShortestPacket(packet_in.codec)
             \/ packet_in.value.buf[1] \div 16 # TypeNibble(packet_in.codec) )
           => ~decoded.value.ok

\* C32: SubscribeTopic::decode returns InvalidQoS for every Requested-QoS
\* byte greater than 2, that is when any of its upper 6 bits is set or its
\* QoS is 3, and accepts the bytes 0, 1 and 2.
C32_ReservedQosBitsAreChecked ==
    ( /\ packet_in.codec = "v3::SubscribeTopic"
      /\ packet_in.value.qos_flag.some
      /\ decoded.some ) =>
        IF packet_in.value.qos_flag.value > 2
        THEN DecodeError("InvalidQoS")
        ELSE /\ decoded.value.ok
             /\ decoded.value.value.qos = packet_in.value.qos_flag.value

\* ------------------------------------------------------------------------
\* Properties of the listener (ListenerSpec).
\* ------------------------------------------------------------------------

\* This step is the listener handling a command of the given type.
DispatcherHandled(type) ==
    /\ dispatcher_cmd'.type = type
    /\ ~Panicked(dispatcher_result)
    /\ DOMAIN session_channels' = DOMAIN session_channels
    /\ \A id \in DOMAIN session_channels :
          /\ session_channels'[id].closed = session_channels[id].closed
          /\ Len(session_channels'[id].queue) >= Len(session_channels[id].queue)
    /\ \/ dispatcher_cmd' # dispatcher_cmd
       \/ dispatcher_result' # dispatcher_result
       \/ session_channels' # session_channels

\* C34: a Publish(session_id, packet) of the dispatcher is enqueued to the
\* session registered under session_id and to no other session; when no
\* session is registered under that id the listener returns a session error
\* and enqueues nothing; the session table is unchanged either way.
C34_PublishGoesToItsSession ==
    [][ DispatcherHandled("Publish") =>
          LET c == dispatcher_cmd'
          IN  /\ DOMAIN session_channels' = DOMAIN session_channels
              /\ \A id \in DOMAIN session_channels \ {c.session_id} :
                    session_channels'[id] = session_channels[id]
              /\ (/\ c.session_id \in DOMAIN session_channels
                  /\ ~session_channels[c.session_id].closed)
                 => /\ dispatcher_result'.ok
                    /\ session_channels'[c.session_id].queue =
                          Append(session_channels[c.session_id].queue,
                                 [type |-> "Publish", packet |-> c.packet])
              /\ c.session_id \notin DOMAIN session_channels
                 => /\ dispatcher_result' = Err("SessionError")
                    /\ session_channels' = session_channels ]_vars

\* A PUBLISH for session 1 is in the channel of session 1 while session 2,
\* registered as well, has nothing in its channel.
C34_Witness ==
    /\ dispatcher_cmd.type = "Publish"
    /\ dispatcher_cmd.session_id = 1
    /\ dispatcher_result.ok
    /\ DOMAIN session_channels = {1, 2}
    /\ session_channels[1].queue = <<[type |-> "Publish", packet |-> dispatcher_cmd.packet]>>
    /\ session_channels[2].queue = <<>>

\* C36: the listener handles every DispatcherToListenerCmd variant by
\* returning Ok or Err; no command of the dispatcher makes it panic.
C36_ListenerNeverPanics == ~Panicked(dispatcher_result)

\* ------------------------------------------------------------------------
\* Properties of the session and its listener (SessionSpec).
\* ------------------------------------------------------------------------

\* This step is the session handling a command of the given type.
SessionHandles(type) ==
    /\ session_rx # <<>>
    /\ session_rx' = Tail(session_rx)
    /\ Head(session_rx).type = type

\* This step is the listener handling a command.
ListenerHandles(type) ==
    /\ Len(session_rx') >= Len(session_rx)
    /\ listener_cmd'.type = type

Tables(s) == <<s.subscriptions, s.inflight, s.pub_recv_packets>>

\* C5: on a ConnectAck whose CONNACK reaches the client, a session in state
\* Connecting moves to Connected when the return code is Accepted and to
\* Invalid, not Disconnected, when it is anything else.
C5_ConnectAckLeavesConnecting ==
    [][ (/\ SessionHandles("ConnectAck")
         /\ session.status = "Connecting"
         /\ session_result'.ok)
        => session'.status =
              IF Head(session_rx).packet.return_code = "Accepted"
              THEN "Connected" ELSE "Invalid" ]_vars

\* The acknowledgement that a QoS prescribes for an accepted PUBLISH.
PrescribedAck(packet_id, qos) ==
    CASE qos = 0 -> <<>>
      [] qos = 1 -> <<PublishAckPacket(packet_id)>>
      [] qos = 2 -> <<PublishReceivedPacket(packet_id)>>

\* C6: for PublishAck(packet_id, qos, accepted=true) with pub-recv below its
\* limit, a handler that returns Ok has written exactly the acknowledgement
\* that qos prescribes (nothing, PUBACK(packet_id), PUBREC(packet_id)) and, for
\* QoS 2, has recorded packet_id in pub-recv; for QoS 0 and QoS 1 pub-recv is
\* left as it was whatever the handler returns.
C6_AcceptedPublishIsAcknowledged ==
    [][ (SessionHandles("PublishAck") /\ Head(session_rx).accepted) =>
          LET c == Head(session_rx)
          IN  /\ (/\ Cardinality(session.pub_recv_packets) < MaxInflightMessages
                  /\ session_result'.ok)
                 => /\ client_rx' = PrescribedAck(c.packet_id, c.qos)
                    /\ session'.pub_recv_packets =
                          IF c.qos = 2
                          THEN session.pub_recv_packets \cup {c.packet_id}
                          ELSE session.pub_recv_packets
              /\ c.qos # 2 => session'.pub_recv_packets = session.pub_recv_packets
      ]_vars

\* An accepted QoS 2 PUBLISH was answered with PUBREC and its id recorded.
C6_Witness ==
    /\ session_cmd.type = "PublishAck"
    /\ session_cmd.accepted
    /\ session_cmd.qos = 2
    /\ session_result.ok
    /\ client_rx = <<PublishReceivedPacket(session_cmd.packet_id)>>
    /\ session_cmd.packet_id \in session.pub_recv_packets

\* C7: on PublishAck with accepted=false, for every QoS, the session writes
\* no PUBACK and no PUBREC, leaves pub-recv as it was and closes the connection.
C7_RefusedPublishClosesSilently ==
    [][ (SessionHandles("PublishAck") /\ ~Head(session_rx).accepted) =>
          /\ \A i \in 1..Len(client_rx') :
                client_rx'[i].type \notin {"PublishAck", "PublishReceived"}
          /\ session'.pub_recv_packets = session.pub_recv_packets
          /\ session'.closed ]_vars

\* A refused QoS 2 PUBLISH closed the connection with nothing written.
C7_Witness ==
    /\ session_cmd.type = "PublishAck"
    /\ ~session_cmd.accepted
    /\ session_cmd.qos = 2
    /\ session.closed
    /\ client_rx = <<>>

\* C8: the listener turns the dispatcher's answer to the cached-session lookup
\* for a registered session into a ConnectAck with return code Accepted and
\* session_present set exactly when a cached session comes with it; the session
\* that handles it, the CONNACK written, ends Connected, with the cached
\* subscriptions and inflight tables when there is a cached session and with
\* its tables untouched when there is none.
C8_CachedSessionLookupAnswer ==
    [][ /\ (/\ ListenerHandles("CheckCachedSessionResp")
            /\ listener_cmd'.session_id \in session_senders)
           => session_rx' = Append(session_rx,
                 [type |-> "ConnectAck",
                  packet |-> ConnectAckPacket(listener_cmd'.cached_session.some,
                                              "Accepted"),
                  cached_session |-> listener_cmd'.cached_session])
        /\ (/\ SessionHandles("ConnectAck")
            /\ Head(session_rx).packet.return_code = "Accepted"
            /\ session_result'.ok)
           => LET c == Head(session_rx)
              IN  /\ client_rx' =
                        <<ConnectAckPacket(c.cached_session.some, "Accepted")>>
                  /\ session'.status = "Connected"
                  /\ Tables(session') =
                        IF c.cached_session.some
                        THEN Tables(c.cached_session.value)
                        ELSE Tables(session) ]_vars

\* A session was connected with session_present=true and a cached subscription.
C8_Witness ==
    /\ session_cmd.type = "ConnectAck"
    /\ session_cmd.cached_session.some
    /\ session.status = "Connected"
    /\ client_rx = <<ConnectAckPacket(TRUE, "Accepted")>>
    /\ session.subscriptions # <<>>
    /\ session.subscriptions = session_cmd.cached_session.value.subscriptions

\* C33: the session sends the CONNACK first and updates its status only
\* then: a ConnectAck handler that makes the status Connected has written
\* the CONNACK to the client, and one that returns the error of a failed
\* send has written nothing and left the status and the tables of the
\* session as they were, no cached session loaded.
C33_ConnackBeforeStatus ==
    [][ SessionHandles("ConnectAck") =>
          /\ (session.status # "Connected" /\ session'.status = "Connected")
                => client_rx' = <<Head(session_rx).packet>>
          /\ ~session_result'.ok
                => /\ client_rx' = <<>>
                   /\ session' = session ]_vars

\* The CONNACK that came with a cached session could not be sent: the
\* handler returned the error and the session is still Connecting, with
\* none of the cached subscriptions.
C33_Witness ==
    /\ session_cmd.type = "ConnectAck"
    /\ session_cmd.cached_session.some
    /\ session_cmd.cached_session.value.subscriptions # <<>>
    /\ ~session_result.ok
    /\ client_rx = <<>>
    /\ session.status = "Connecting"
    /\ session.subscriptions = <<>>

\* C35: the inbound QoS 2 packet ids awaiting PUBREL never number more than
\* maximum_inflight_messages, and a QoS 2 PUBLISH that arrives when the set
\* holds that many ids is answered by disconnecting the client, its id not
\* added.
C35_PubRecvWithinLimit ==
    /\ [](Cardinality(session.pub_recv_packets) <= MaxInflightMessages)
    /\ [][ (/\ SessionHandles("PublishAck")
            /\ Head(session_rx).accepted
            /\ Head(session_rx).qos = 2
            /\ Cardinality(session.pub_recv_packets) >= MaxInflightMessages)
           => /\ session'.closed
              /\ session'.pub_recv_packets = session.pub_recv_packets ]_vars

\* ------------------------------------------------------------------------
\* Properties of the Auth task (AuthSpec).
\* ------------------------------------------------------------------------

\* The last request was answered with a grant.
Granted ==
    \E i \in 1..Len(auth_tx[auth_cmd.listener_id]) :
        /\ auth_tx[auth_cmd.listener_id][i].session_id = auth_cmd.session_id
        /\ auth_tx[auth_cmd.listener_id][i].access_granted

\* The last request was answered with a denial.
Denied ==
    auth_tx[auth_cmd.listener_id] = <<ResponseAuth(auth_cmd.session_id, FALSE)>>

\* The password file holds a record of the user made from the password.
HoldsRecord(username, password) ==
    /\ file_auth.some
    /\ username \in DOMAIN file_auth.value
    /\ file_auth.value[username].kind = "hashed"
    /\ file_auth.value[username].password = password

\* C9: access is granted exactly when the username is empty and
\* allow_anonymous is true, or the username is non-empty, a password file is
\* configured and it holds a record matching (username, password); an unknown
\* username, and a non-empty username without a password file, are denied.
C9_GrantedExactlyWhenEntitled ==
    auth_cmd.type = "RequestAuth" =>
        /\ Granted <=>
              \/ auth_cmd.username = "" /\ allow_anonymous
              \/ auth_cmd.username # "" /\ HoldsRecord(auth_cmd.username,
                                                       auth_cmd.password)
        /\ (/\ auth_cmd.username # ""
            /\ \/ ~file_auth.some
               \/ auth_cmd.username \notin DOMAIN file_auth.value)
           => Denied

\* A named user was granted access on the record of the password file.
C9_Witness ==
    /\ auth_cmd.type = "RequestAuth"
    /\ auth_cmd.username # ""
    /\ ~allow_anonymous
    /\ auth_tx[auth_cmd.listener_id] = <<ResponseAuth(auth_cmd.session_id, TRUE)>>

\* C10: every RequestAuth the Auth task has handled is answered by exactly
\* one ResponseAuth with the same session id on the channel of the listener
\* with that listener id, an error of the credential check included.
C10_EveryRequestIsAnswered ==
    auth_cmd.type = "RequestAuth" =>
        /\ Len(auth_tx[auth_cmd.listener_id]) = 1
        /\ auth_tx[auth_cmd.listener_id][1].type = "ResponseAuth"
        /\ auth_tx[auth_cmd.listener_id][1].session_id = auth_cmd.session_id
        /\ \A l \in ListenerIds \ {auth_cmd.listener_id} : auth_tx[l] = <<>>

\* ------------------------------------------------------------------------
\* Properties of ByteArray (ReaderSpec).
\* ------------------------------------------------------------------------

\* C39: the read cursor of a ByteArray never passes the end of the data:
\* after any sequence of read_byte, read_u16, read_u32, read_string and
\* read_bytes calls, including the calls that return OutOfRangeError,
\* offset <= data.len() holds, a failed read leaves the cursor where it was,
\* and remaining_bytes() never fails its assertion.
C39_CursorStaysInRange ==
    /\ [](byte_array.offset <= Len(byte_array.data))
    /\ [][ ~read_result'.result.ok => byte_array'.offset = byte_array.offset ]_vars
    /\ [](~Panicked(read_result.result))

====
